---- MODULE Spec2Model ----
(***************************************************************************)
(* Benchmark engine of getman (src-tauri/src/engine/benchmark.rs) and the  *)
(* command layer that drives it (src-tauri/src/commands/                   *)
(* benchmark_commands.rs).                                                 *)
(*                                                                         *)
(* Four specifications share the variables below:                          *)
(*   SpecRegistry  clients calling register / cancel / remove and polling  *)
(*                 the receivers they were handed                          *)
(*   SpecValidate  validate_spec applied to a bounded set of specs         *)
(*   SpecAggregate the per-sample loop of aggregate_samples                *)
(*   Spec          one run: start_benchmark -> execute_benchmark ->        *)
(*                 run_phase workers, with cancel_benchmark_run arriving   *)
(*                 at any moment                                           *)
(* A specification keeps the variables of the others at their initial      *)
(* values.                                                                 *)
(***************************************************************************)
EXTENDS Integers, Sequences, FiniteSets, TLC

VARIABLES
    senders,      \* BenchmarkRegistry.senders: id -> channel (0: no entry)
    chans,        \* the broadcast channels created so far
    receivers,    \* broadcast::Receiver handles handed out by register/resubscribe
    cancelTx,     \* channels whose Sender a cancel() in progress took from the map
    hist,         \* history of cancel() calls per id since its last register
    spec,         \* the BenchmarkSpecPayload under consideration
    validated,    \* <<validate_spec(spec)>> once it was called, <<>> before
    workloads,    \* <<measurement_workload(spec), warmup_workload(spec)>> once called
    agg_in,       \* arguments of aggregate_samples: samples, timestamps, top_k_errors
    agg_i,        \* number of samples the loop of aggregate_samples has consumed
    agg_acc,      \* the accumulators of aggregate_samples
    agg_out,      \* <<metrics>> once aggregate_samples returned, <<>> before
    agg_calls,    \* history: what the earlier calls on the same arguments returned
    req,          \* what one request attempt meets: the outcomes of its two races
    req_sample,   \* <<SampleResult>> once execute_single_request returned, <<>> before
    run_pc,       \* where the task spawned by start_benchmark stands
    run_status,   \* status column of the run's row
    result,       \* <<outcome of execute_benchmark>> once it returned, <<>> before
    phase,        \* locals of the run_phase call in progress
    workers,      \* the worker tasks of that call
    sample_chan,  \* samples sent on the mpsc channel and not yet received
    attempts,     \* history: one entry per request started, in start order
    plog          \* history: per phase, what run_phase did and returned

regVars == <<senders, chans, receivers, cancelTx, hist>>
valVars == <<validated, workloads>>
aggVars == <<agg_in, agg_i, agg_acc, agg_out, agg_calls>>
reqVars == <<req, req_sample>>
runVars == <<run_pc, run_status, result, phase, workers, sample_chan, attempts, plog>>

vars == <<regVars, spec, valVars, aggVars, reqVars, runVars>>

(***************************************************************************)
(* Bounds                                                                  *)
(***************************************************************************)
MaxRegistrations == 2
MaxReceivers == 3
MaxCancelCalls == 2

Ids == {"run-1", "run-2"}

(***************************************************************************)
(* BenchmarkSpecPayload: the fields the engine reads.  An Option<u64> that *)
(* is None is written None; method_ok / headers_ok / proxy_ok say whether  *)
(* Method::from_bytes, build_headers and Proxy::all accept the strings of  *)
(* the request snapshot and the transport config.                          *)
(***************************************************************************)
MaxConcurrency == 2
MaxTimeoutMs == 1
MaxIterations == 2
MaxDurationMs == 1
MaxWarmupIterations == 1
MaxWarmupDurationMs == 1

None == -1

OptionU64(max) == {None} \cup (0..max)

unwrap_or(opt, default) == IF opt = None THEN default ELSE opt

LoadModes == {"FixedIterations", "FixedDuration"}

SpecSpace ==
    [concurrency : 0..MaxConcurrency,
     timeout_ms : 0..MaxTimeoutMs,
     mode : LoadModes,
     iterations : OptionU64(MaxIterations),
     duration_ms : OptionU64(MaxDurationMs),
     warmup_iterations : OptionU64(MaxWarmupIterations),
     warmup_duration_ms : OptionU64(MaxWarmupDurationMs),
     method_ok : BOOLEAN,
     headers_ok : BOOLEAN,
     proxy_ok : BOOLEAN]

NoSpec ==
    [concurrency |-> 0, timeout_ms |-> 0, mode |-> "FixedIterations",
     iterations |-> None, duration_ms |-> None,
     warmup_iterations |-> None, warmup_duration_ms |-> None,
     method_ok |-> FALSE, headers_ok |-> FALSE, proxy_ok |-> FALSE]

Ok(v) == [ok |-> TRUE, value |-> v]
Err(msg) == [ok |-> FALSE, err |-> msg]

Iterations(n) == [kind |-> "Iterations", bound |-> n]
DurationMs(d) == [kind |-> "DurationMs", bound |-> d]

\* A measurement_workload that reads the iteration count in either mode.
measurement_workload_ignores_mode(sp) ==
    IF unwrap_or(sp.iterations, 0) = 0
    THEN Err("Benchmark fixed_iterations mode requires iterations > 0")
    ELSE Ok(Iterations(unwrap_or(sp.iterations, 0)))

measurement_workload(sp) ==
    IF sp.mode = "FixedIterations"
    THEN LET iterations == unwrap_or(sp.iterations, 0)
         IN IF iterations = 0
            THEN Err("Benchmark fixed_iterations mode requires iterations > 0")
            ELSE Ok(Iterations(iterations))
    ELSE LET duration_ms == unwrap_or(sp.duration_ms, 0)
         IN IF duration_ms = 0
            THEN Err("Benchmark fixed_duration mode requires durationMs > 0")
            ELSE Ok(DurationMs(duration_ms))

\* A validation that leaves the timeout unchecked.
validate_spec_skips_timeout(sp) ==
    IF sp.concurrency = 0
    THEN Err("Benchmark concurrency must be greater than 0")
    ELSE IF ~measurement_workload(sp).ok
    THEN measurement_workload(sp)
    ELSE Ok("unit")

validate_spec(sp) ==
    IF sp.concurrency = 0
    THEN Err("Benchmark concurrency must be greater than 0")
    ELSE IF sp.timeout_ms = 0
    THEN Err("Benchmark timeoutMs must be greater than 0")
    ELSE IF ~measurement_workload(sp).ok
    THEN measurement_workload(sp)
    ELSE Ok("unit")

NoWorkload == [kind |-> "None", bound |-> 0]

\* A warmup selector that looks at the duration before the iterations.
warmup_workload_duration_first(sp) ==
    IF sp.warmup_duration_ms # None /\ sp.warmup_duration_ms > 0
    THEN DurationMs(sp.warmup_duration_ms)
    ELSE IF sp.warmup_iterations # None /\ sp.warmup_iterations > 0
    THEN Iterations(sp.warmup_iterations)
    ELSE NoWorkload

warmup_workload(sp) ==
    LET warmup_iterations == unwrap_or(sp.warmup_iterations, 0)
        warmup_duration == unwrap_or(sp.warmup_duration_ms, 0)
    IN IF warmup_iterations > 0
       THEN Iterations(warmup_iterations)
       ELSE IF warmup_duration > 0
       THEN DurationMs(warmup_duration)
       ELSE NoWorkload

(***************************************************************************)
(* SampleResult and the classifier (execute_single_request,                *)
(* handle_response).  Latencies are kept in half-microseconds so that the  *)
(* rounding to whole microseconds in aggregate_samples is a real step;     *)
(* Option<T> values of a sample are <<>> (None) or <<v>> (Some(v)); a body *)
(* is [len, tag]: tag names the byte string, len its length.               *)
(***************************************************************************)
MAX_ERROR_BODY_BYTES == 8 * 1024

UnitsPerMs == 2 * 1000
UnitsPerUs == UnitsPerMs \div 1000

NoneOpt == <<>>
Some(v) == <<v>>
is_some(opt) == opt # <<>>
unwrap_or_default(opt, default) == IF opt = <<>> THEN default ELSE opt[1]

Min(a, b) == IF a <= b THEN a ELSE b
Max(a, b) == IF a >= b THEN a ELSE b

SampleResult(ts, lat, status, ok, etype, emsg, bin, bout, body, canc) ==
    [timestamp_ms |-> ts, latency |-> lat, status_code |-> status, success |-> ok,
     error_type |-> etype, error_message |-> emsg, bytes_in |-> bin,
     bytes_out |-> bout, sample_body |-> body, cancelled |-> canc]

\* A classifier that asks the connect question before the DNS and TLS ones.
classify_reqwest_error_connect_first(err) ==
    IF err.is_timeout THEN "TIMEOUT"
    ELSE IF err.is_connect THEN "CONNECT_ERROR"
    ELSE IF err.mentions \cap {"dns", "failed to lookup address"} # {} THEN "DNS_ERROR"
    ELSE IF err.mentions \cap {"tls", "ssl", "certificate"} # {} THEN "TLS_ERROR"
    ELSE "READ_ERROR"

\* err: [is_timeout, mentions, is_connect, text]; mentions holds the words of
\* the lower-cased message among those the classifier looks for.
classify_reqwest_error(err) ==
    IF err.is_timeout THEN "TIMEOUT"
    ELSE IF err.mentions \cap {"dns", "failed to lookup address"} # {} THEN "DNS_ERROR"
    ELSE IF err.mentions \cap {"tls", "ssl", "certificate"} # {} THEN "TLS_ERROR"
    ELSE IF err.is_connect THEN "CONNECT_ERROR"
    ELSE "READ_ERROR"

\* A status test that starts the 4xx family one status late.
status_family_error_from_401(status) ==
    IF status > 400 /\ status < 500 THEN Some("HTTP_STATUS_4XX")
    ELSE IF status >= 500 THEN Some("HTTP_STATUS_5XX")
    ELSE NoneOpt

\* A status test that gives no error type to the 4xx family.
status_family_error_5xx_only(status) ==
    IF status >= 500 THEN Some("HTTP_STATUS_5XX") ELSE NoneOpt

status_family_error(status) ==
    IF status >= 400 /\ status < 500 THEN Some("HTTP_STATUS_4XX")
    ELSE IF status >= 500 THEN Some("HTTP_STATUS_5XX")
    ELSE NoneOpt

\* A response handler that classifies a failed body read by the status family
\* when the status is an error status.
handle_response_read_error_by_family(response, body_outcome, elapsed_ms, completed_at, bytes_out, save_bodies) ==
    LET status == response.status
        family == status_family_error(status)
        response_headers_bytes == response.headers_bytes
    IN IF body_outcome.kind = "cancel"
       THEN SampleResult(completed_at, elapsed_ms, Some(status), FALSE, Some("CANCELED"),
                         Some("Benchmark cancelled"), response_headers_bytes, bytes_out,
                         NoneOpt, TRUE)
       ELSE IF body_outcome.kind = "ok"
       THEN LET body == body_outcome.body
                sample_body == IF is_some(family) /\ save_bodies = "Errors"
                               THEN Some([len |-> Min(body.len, MAX_ERROR_BODY_BYTES),
                                          tag |-> body.tag])
                               ELSE NoneOpt
            IN SampleResult(completed_at, elapsed_ms, Some(status), status < 400, family,
                            IF is_some(family) THEN Some("HTTP " \o ToString(status)) ELSE NoneOpt,
                            response_headers_bytes + body.len, bytes_out, sample_body, FALSE)
       ELSE SampleResult(completed_at, elapsed_ms, Some(status), FALSE,
                         IF is_some(family) THEN family ELSE Some("READ_ERROR"),
                         Some(body_outcome.text), response_headers_bytes, bytes_out,
                         NoneOpt, FALSE)

\* body_outcome: [kind |-> "cancel"] when the receiver won the race against
\* response.bytes(), [kind |-> "ok", body |-> [len, tag]] or
\* [kind |-> "err", text |-> ...] otherwise.
handle_response(response, body_outcome, elapsed_ms, completed_at, bytes_out, save_bodies) ==
    LET status == response.status
        family == status_family_error(status)
        response_headers_bytes == response.headers_bytes
    IN IF body_outcome.kind = "cancel"
       THEN SampleResult(completed_at, elapsed_ms, Some(status), FALSE, Some("CANCELED"),
                         Some("Benchmark cancelled"), response_headers_bytes, bytes_out,
                         NoneOpt, TRUE)
       ELSE IF body_outcome.kind = "ok"
       THEN LET body == body_outcome.body
                sample_body == IF is_some(family) /\ save_bodies = "Errors"
                               THEN Some([len |-> Min(body.len, MAX_ERROR_BODY_BYTES),
                                          tag |-> body.tag])
                               ELSE NoneOpt
            IN SampleResult(completed_at, elapsed_ms, Some(status), status < 400, family,
                            IF is_some(family) THEN Some("HTTP " \o ToString(status)) ELSE NoneOpt,
                            response_headers_bytes + body.len, bytes_out, sample_body, FALSE)
       ELSE SampleResult(completed_at, elapsed_ms, Some(status), FALSE, Some("READ_ERROR"),
                         Some(body_outcome.text), response_headers_bytes, bytes_out,
                         NoneOpt, FALSE)

\* send_outcome: [kind |-> "cancel"] when the receiver won the race against
\* request.send(), [kind |-> "err", err |-> ...] or
\* [kind |-> "ok", response |-> [status, headers_bytes]] otherwise.
execute_single_request(send_outcome, body_outcome, elapsed_ms, completed_at, bytes_out, save_bodies) ==
    IF send_outcome.kind = "cancel"
    THEN SampleResult(completed_at, elapsed_ms, NoneOpt, FALSE, Some("CANCELED"),
                      Some("Benchmark cancelled"), 0, bytes_out, NoneOpt, TRUE)
    ELSE IF send_outcome.kind = "ok"
    THEN handle_response(send_outcome.response, body_outcome, elapsed_ms, completed_at,
                         bytes_out, save_bodies)
    ELSE SampleResult(completed_at, elapsed_ms, NoneOpt, FALSE,
                      Some(classify_reqwest_error(send_outcome.err)),
                      Some(send_outcome.err.text), 0, bytes_out, NoneOpt, FALSE)

\* outcomes of the two races of a request, as the classifier reads them
Ms(n) == n * UnitsPerMs

TimeoutErr == [is_timeout |-> TRUE, mentions |-> {}, is_connect |-> FALSE,
               text |-> "operation timed out"]

Resp(status) == [kind |-> "ok", response |-> [status |-> status, headers_bytes |-> 40]]
BodyOk(len, tag) == [kind |-> "ok", body |-> [len |-> len, tag |-> tag]]
Cancel == [kind |-> "cancel"]

(***************************************************************************)
(* aggregate_samples: the accumulators and the body of the per-sample loop *)
(***************************************************************************)
HISTOGRAM_EDGES_MS ==
    <<0, 1, 2, 5, 10, 20, 50, 100, 200, 500, 1000, 2000, 5000, 10000,
      20000, 30000, 45000, 60000>>

\* edge idx (0-based, as in the source), in latency units
Edge(idx) == HISTOGRAM_EDGES_MS[idx + 1] * UnitsPerMs

BucketIndexes == 0..(Len(HISTOGRAM_EDGES_MS) - 2)

histogram_bucket_index(latency) ==
    LET hits == {idx \in BucketIndexes : latency >= Edge(idx) /\ latency < Edge(idx + 1)}
    IN IF hits # {}
       THEN CHOOSE idx \in hits : \A other \in hits : idx <= other
       ELSE Len(HISTOGRAM_EDGES_MS) - 2

\* (latency_ms * 1000.0).round().max(1.0) as u64, then .min(60_000_000)
latency_us(latency) ==
    Min(Max((2 * latency + UnitsPerUs) \div (2 * UnitsPerUs), 1), 60000000)

\* *map.entry(key).or_insert(0) += 1
Bump(map, key) ==
    IF key \in DOMAIN map THEN [map EXCEPT ![key] = @ + 1] ELSE map @@ (key :> 1)

\* RunningStats::add; mean is sum / count, and m2 is a function of the values
\* added, which the series buckets retain.
stats_add(stats, value) ==
    [count |-> stats.count + 1,
     sum |-> stats.sum + value,
     min |-> IF stats.count = 0 THEN value ELSE Min(stats.min, value),
     max |-> IF stats.count = 0 THEN value ELSE Max(stats.max, value)]

EmptySummary ==
    [total_requests |-> 0, success_count |-> 0, error_count |-> 0,
     bytes_in |-> 0, bytes_out |-> 0,
     status_code_counts |-> <<>>, error_type_counts |-> <<>>]

EmptyAcc ==
    [summary |-> EmptySummary,
     stats |-> [count |-> 0, sum |-> 0, min |-> 0, max |-> 0],
     latency_histogram |-> <<>>,
     histogram_counts |-> [idx \in BucketIndexes |-> 0],
     series |-> <<>>,
     top_error_map |-> <<>>]

EmptyBucket == [success |-> 0, error |-> 0, latencies |-> <<>>, bytes_in |-> 0, bytes_out |-> 0]

\* A key that tells error samples apart by their error type alone.
top_error_key_type_only(sample) == sample.error_type[1]

top_error_key(sample) ==
    sample.error_type[1] \o "|" \o ToString(unwrap_or_default(sample.status_code, 0))
        \o "|" \o unwrap_or_default(sample.error_message, "")

\* An entry that takes the body of every later duplicate that has one.
top_error_insert_last_wins(map, sample) ==
    LET key == top_error_key(sample)
        fresh == [error_type |-> sample.error_type[1],
                  status_code |-> sample.status_code,
                  message |-> unwrap_or_default(sample.error_message, "Unknown benchmark error"),
                  count |-> 0,
                  sample_body |-> sample.sample_body]
        entry == IF key \in DOMAIN map THEN map[key] ELSE fresh
        counted == [entry EXCEPT !.count = @ + 1,
                                 !.sample_body = IF is_some(sample.sample_body)
                                                 THEN sample.sample_body ELSE @]
    IN IF key \in DOMAIN map THEN [map EXCEPT ![key] = counted] ELSE map @@ (key :> counted)

top_error_insert(map, sample) ==
    LET key == top_error_key(sample)
        fresh == [error_type |-> sample.error_type[1],
                  status_code |-> sample.status_code,
                  message |-> unwrap_or_default(sample.error_message, "Unknown benchmark error"),
                  count |-> 0,
                  sample_body |-> sample.sample_body]
        entry == IF key \in DOMAIN map THEN map[key] ELSE fresh
        counted == [entry EXCEPT !.count = @ + 1,
                                 !.sample_body = IF entry.sample_body = NoneOpt
                                                 THEN sample.sample_body ELSE @]
    IN IF key \in DOMAIN map THEN [map EXCEPT ![key] = counted] ELSE map @@ (key :> counted)

\* A series bucket that is not told about failed samples.
series_insert_drops_failures(series, sample) ==
    LET bucket_ts == (sample.timestamp_ms \div 1000) * 1000
        bucket == IF bucket_ts \in DOMAIN series THEN series[bucket_ts] ELSE EmptyBucket
        filled == [success |-> bucket.success + (IF sample.success THEN 1 ELSE 0),
                   error |-> bucket.error,
                   latencies |-> Append(bucket.latencies, sample.latency),
                   bytes_in |-> bucket.bytes_in + sample.bytes_in,
                   bytes_out |-> bucket.bytes_out + sample.bytes_out]
    IN IF bucket_ts \in DOMAIN series
       THEN [series EXCEPT ![bucket_ts] = filled]
       ELSE series @@ (bucket_ts :> filled)

\* A series keyed by the timestamp itself, not rounded down to the second.
series_insert_keyed_by_ms(series, sample) ==
    LET bucket_ts == sample.timestamp_ms
        bucket == IF bucket_ts \in DOMAIN series THEN series[bucket_ts] ELSE EmptyBucket
        filled == [success |-> bucket.success + (IF sample.success THEN 1 ELSE 0),
                   error |-> bucket.error + (IF sample.success THEN 0 ELSE 1),
                   latencies |-> Append(bucket.latencies, sample.latency),
                   bytes_in |-> bucket.bytes_in + sample.bytes_in,
                   bytes_out |-> bucket.bytes_out + sample.bytes_out]
    IN IF bucket_ts \in DOMAIN series
       THEN [series EXCEPT ![bucket_ts] = filled]
       ELSE series @@ (bucket_ts :> filled)

series_insert(series, sample) ==
    LET bucket_ts == (sample.timestamp_ms \div 1000) * 1000
        bucket == IF bucket_ts \in DOMAIN series THEN series[bucket_ts] ELSE EmptyBucket
        filled == [success |-> bucket.success + (IF sample.success THEN 1 ELSE 0),
                   error |-> bucket.error + (IF sample.success THEN 0 ELSE 1),
                   latencies |-> Append(bucket.latencies, sample.latency),
                   bytes_in |-> bucket.bytes_in + sample.bytes_in,
                   bytes_out |-> bucket.bytes_out + sample.bytes_out]
    IN IF bucket_ts \in DOMAIN series
       THEN [series EXCEPT ![bucket_ts] = filled]
       ELSE series @@ (bucket_ts :> filled)

\* The loop body for a sample that is not skipped.
accumulate(acc, sample) ==
    LET sm == acc.summary
        summary1 == [sm EXCEPT
            !.total_requests = @ + 1,
            !.bytes_in = @ + sample.bytes_in,
            !.bytes_out = @ + sample.bytes_out,
            !.success_count = IF sample.success THEN @ + 1 ELSE @,
            !.error_count = IF sample.success THEN @ ELSE @ + 1,
            !.status_code_counts = IF is_some(sample.status_code)
                                   THEN Bump(@, ToString(sample.status_code[1])) ELSE @,
            !.error_type_counts = IF is_some(sample.error_type)
                                  THEN Bump(@, sample.error_type[1]) ELSE @]
    IN [summary |-> summary1,
        stats |-> stats_add(acc.stats, sample.latency),
        latency_histogram |-> Bump(acc.latency_histogram, latency_us(sample.latency)),
        histogram_counts |->
            [acc.histogram_counts EXCEPT ![histogram_bucket_index(sample.latency)] = @ + 1],
        series |-> series_insert(acc.series, sample),
        top_error_map |-> IF is_some(sample.error_type)
                          THEN top_error_insert(acc.top_error_map, sample)
                          ELSE acc.top_error_map]

\* A loop body without the `if sample.cancelled { continue; }` guard.
aggregate_one_counts_cancelled(acc, sample) == accumulate(acc, sample)

\* A loop that, once it has counted a failure, skips the successes that
\* follow: what a sample adds depends on the samples before it.
aggregate_one_skips_after_failure(acc, sample) ==
    IF sample.cancelled \/ (acc.summary.error_count > 0 /\ sample.success)
    THEN acc ELSE accumulate(acc, sample)

\* One iteration of `for sample in samples`.
aggregate_one(acc, sample) ==
    IF sample.cancelled THEN acc ELSE accumulate(acc, sample)

(***************************************************************************)
(* aggregate_samples: what follows the loop.  Rounded f64 outputs are kept *)
(* in thousandths (round_to_3 yields a whole number of thousandths);       *)
(* stddev_ms is not modelled.                                              *)
(***************************************************************************)
\* A division that drops the fraction instead of rounding it.
RoundDiv_truncates(num, den) == num \div den

\* round(num / den) in whole units, halves away from zero (f64::round), den > 0
RoundDiv(num, den) == (2 * num + den) \div (2 * den)

\* round_to_3(latency in ms), in thousandths of a millisecond
round_to_3_latency(latency) == RoundDiv(latency, UnitsPerUs)

RECURSIVE SumOver(_, _)
SumOver(f, keys) ==
    IF keys = {} THEN 0
    ELSE LET k == CHOOSE x \in keys : TRUE IN f[k] + SumOver(f, keys \ {k})

RECURSIVE SumSeq(_)
SumSeq(seq) == IF seq = <<>> THEN 0 ELSE Head(seq) + SumSeq(Tail(seq))

Ceil(num, den) == (num + den - 1) \div den

\* percentile(sorted_values, pct) of the source, 0-based index made 1-based
percentile(sorted_values, pct) ==
    IF sorted_values = <<>> THEN 0
    ELSE LET n == Len(sorted_values)
             index == Min(Max(Ceil(pct * n, 100) - 1, 0), n - 1)
         IN sorted_values[index + 1]

\* hdrhistogram, Histogram::<u64>::new_with_bounds(1, 60_000_000, 3): 2048
\* sub-buckets; values below 2048 are exact, a larger value v shares its slot
\* with the 2^k values around it, k the least shift with v < 2048 * 2^k.
RECURSIVE hdr_width(_, _)
hdr_width(v, w) == IF v < 2048 * w THEN w ELSE hdr_width(v, 2 * w)

lowest_equivalent(v) == (v \div hdr_width(v, 1)) * hdr_width(v, 1)
highest_equivalent(v) == lowest_equivalent(v) + hdr_width(v, 1) - 1

\* A quantile read that rounds the rank down.
value_at_quantile_rank_floor(h, pct) ==
    LET total == SumOver(h, DOMAIN h)
        count_at_quantile == Max((pct * total) \div 100, 1)
        upto(v) == SumOver(h, {u \in DOMAIN h : lowest_equivalent(u) <= lowest_equivalent(v)})
        reached == {v \in DOMAIN h : upto(v) >= count_at_quantile}
    IN IF reached = {} THEN 0
       ELSE highest_equivalent(CHOOSE v \in reached : \A u \in reached : v <= u)

\* Histogram::value_at_quantile(pct / 100)
value_at_quantile(h, pct) ==
    LET total == SumOver(h, DOMAIN h)
        count_at_quantile == Max(Ceil(pct * total, 100), 1)
        upto(v) == SumOver(h, {u \in DOMAIN h : lowest_equivalent(u) <= lowest_equivalent(v)})
        reached == {v \in DOMAIN h : upto(v) >= count_at_quantile}
    IN IF reached = {} THEN 0
       ELSE highest_equivalent(CHOOSE v \in reached : \A u \in reached : v <= u)

ZeroLatency ==
    [min_ms |-> 0, avg_ms |-> 0, max_ms |-> 0,
     p50_ms |-> 0, p90_ms |-> 0, p95_ms |-> 0, p99_ms |-> 0]

\* BenchmarkAggregatedMetrics::default()
DefaultMetrics ==
    [summary |-> [total_requests |-> 0, success_count |-> 0, error_count |-> 0,
                  error_rate |-> 0, rps_avg |-> 0, rps_peak |-> 0,
                  bytes_in |-> 0, bytes_out |-> 0, latency |-> ZeroLatency,
                  status_code_counts |-> <<>>, error_type_counts |-> <<>>],
     timeseries |-> <<>>, histogram |-> <<>>, top_errors |-> <<>>]

saturating_sub(a, b) == IF a >= b THEN a - b ELSE 0

\* A summary whose peak is the largest per-second count of successes.
final_summary_peak_of_successes(acc, started_at_ms, finished_at_ms) ==
    LET sm == acc.summary
        elapsed_ms == Max(saturating_sub(finished_at_ms, started_at_ms), 1)
        peak_rps == IF DOMAIN acc.series = {} THEN 0
                    ELSE LET load(ts) == acc.series[ts].success
                         IN load(CHOOSE ts \in DOMAIN acc.series :
                                     \A other \in DOMAIN acc.series : load(ts) >= load(other))
        measured == sm.total_requests > 0
    IN [total_requests |-> sm.total_requests,
        success_count |-> sm.success_count,
        error_count |-> sm.error_count,
        error_rate |-> IF measured
                       THEN RoundDiv(sm.error_count * 100 * 1000, sm.total_requests) ELSE 0,
        rps_avg |-> IF measured
                    THEN RoundDiv(sm.total_requests * 1000 * 1000, elapsed_ms) ELSE 0,
        rps_peak |-> IF measured THEN peak_rps * 1000 ELSE 0,
        bytes_in |-> sm.bytes_in,
        bytes_out |-> sm.bytes_out,
        latency |-> IF measured
                    THEN [min_ms |-> round_to_3_latency(acc.stats.min),
                          avg_ms |-> RoundDiv(acc.stats.sum, acc.stats.count * UnitsPerUs),
                          max_ms |-> round_to_3_latency(acc.stats.max),
                          p50_ms |-> value_at_quantile(acc.latency_histogram, 50),
                          p90_ms |-> value_at_quantile(acc.latency_histogram, 90),
                          p95_ms |-> value_at_quantile(acc.latency_histogram, 95),
                          p99_ms |-> value_at_quantile(acc.latency_histogram, 99)]
                    ELSE ZeroLatency,
        status_code_counts |-> sm.status_code_counts,
        error_type_counts |-> sm.error_type_counts]

final_summary(acc, started_at_ms, finished_at_ms) ==
    LET sm == acc.summary
        elapsed_ms == Max(saturating_sub(finished_at_ms, started_at_ms), 1)
        peak_rps == IF DOMAIN acc.series = {} THEN 0
                    ELSE LET load(ts) == acc.series[ts].success + acc.series[ts].error
                         IN load(CHOOSE ts \in DOMAIN acc.series :
                                     \A other \in DOMAIN acc.series : load(ts) >= load(other))
        measured == sm.total_requests > 0
    IN [total_requests |-> sm.total_requests,
        success_count |-> sm.success_count,
        error_count |-> sm.error_count,
        error_rate |-> IF measured
                       THEN RoundDiv(sm.error_count * 100 * 1000, sm.total_requests) ELSE 0,
        rps_avg |-> IF measured
                    THEN RoundDiv(sm.total_requests * 1000 * 1000, elapsed_ms) ELSE 0,
        rps_peak |-> IF measured THEN peak_rps * 1000 ELSE 0,
        bytes_in |-> sm.bytes_in,
        bytes_out |-> sm.bytes_out,
        latency |-> IF measured
                    THEN [min_ms |-> round_to_3_latency(acc.stats.min),
                          avg_ms |-> RoundDiv(acc.stats.sum, acc.stats.count * UnitsPerUs),
                          max_ms |-> round_to_3_latency(acc.stats.max),
                          p50_ms |-> value_at_quantile(acc.latency_histogram, 50),
                          p90_ms |-> value_at_quantile(acc.latency_histogram, 90),
                          p95_ms |-> value_at_quantile(acc.latency_histogram, 95),
                          p99_ms |-> value_at_quantile(acc.latency_histogram, 99)]
                    ELSE ZeroLatency,
        status_code_counts |-> sm.status_code_counts,
        error_type_counts |-> sm.error_type_counts]

\* the keys of an integer-keyed map in ascending order
RECURSIVE Ascending(_)
Ascending(keys) ==
    IF keys = {} THEN <<>>
    ELSE LET k == CHOOSE x \in keys : \A y \in keys : x <= y
         IN <<k>> \o Ascending(keys \ {k})

timeseries_point(bucket_ts, bucket) ==
    LET sorted == SortSeq(bucket.latencies, LAMBDA a, b : a < b)
    IN [bucket_ts_ms |-> bucket_ts,
        rps_success |-> bucket.success,
        rps_error |-> bucket.error,
        latency_p95_ms |-> round_to_3_latency(percentile(sorted, 95)),
        latency_avg_ms |-> IF sorted = <<>> THEN 0
                           ELSE RoundDiv(SumSeq(sorted), Len(sorted) * UnitsPerUs),
        bytes_in |-> bucket.bytes_in,
        bytes_out |-> bucket.bytes_out]

final_timeseries(series) ==
    LET order == Ascending(DOMAIN series)
    IN [i \in 1..Len(order) |-> timeseries_point(order[i], series[order[i]])]

\* A histogram output that emits every display bucket, empty or not.
final_histogram_keeps_empty(histogram_counts) ==
    [i \in 1..(Len(HISTOGRAM_EDGES_MS) - 1) |->
        [lower_bound_ms |-> HISTOGRAM_EDGES_MS[i],
         upper_bound_ms |-> HISTOGRAM_EDGES_MS[i + 1],
         count |-> histogram_counts[i - 1]]]

final_histogram(histogram_counts) ==
    LET order == Ascending({idx \in BucketIndexes : histogram_counts[idx] # 0})
    IN [i \in 1..Len(order) |->
           [lower_bound_ms |-> HISTOGRAM_EDGES_MS[order[i] + 1],
            upper_bound_ms |-> HISTOGRAM_EDGES_MS[order[i] + 2],
            count |-> histogram_counts[order[i]]]]

\* str::cmp on the error type names the engine produces
ErrorTypeNames ==
    <<"CANCELED", "CONNECT_ERROR", "DNS_ERROR", "HTTP_STATUS_4XX", "HTTP_STATUS_5XX",
      "READ_ERROR", "TIMEOUT", "TLS_ERROR">>

NameRank(name) == CHOOSE i \in 1..Len(ErrorTypeNames) : ErrorTypeNames[i] = name

\* A comparator that puts the smaller count first.
top_error_cmp_ascending(left, right) ==
    IF left.count < right.count THEN -1
    ELSE IF left.count > right.count THEN 1
    ELSE IF NameRank(left.error_type) < NameRank(right.error_type) THEN -1
    ELSE IF NameRank(left.error_type) > NameRank(right.error_type) THEN 1
    ELSE 0

\* the comparator of top_errors.sort_by: -1 Less, 0 Equal, 1 Greater
top_error_cmp(left, right) ==
    IF right.count < left.count THEN -1
    ELSE IF right.count > left.count THEN 1
    ELSE IF NameRank(left.error_type) < NameRank(right.error_type) THEN -1
    ELSE IF NameRank(left.error_type) > NameRank(right.error_type) THEN 1
    ELSE 0

\* Every list top_errors can be: the map's values in some iteration order
\* (HashMap::into_values), stably sorted, cut to top_k_errors.max(1).
final_top_errors(map, top_k_errors) ==
    LET n == Cardinality(DOMAIN map)
        orders == {o \in [1..n -> DOMAIN map] : \A i, j \in 1..n : i # j => o[i] # o[j]}
        sorted == {o \in orders :
                      \A i \in 1..n : \A j \in 1..n :
                          i < j => top_error_cmp(map[o[i]], map[o[j]]) <= 0}
        keep == Min(n, Max(top_k_errors, 1))
    IN {[i \in 1..keep |-> map[o[i]]] : o \in sorted}

(***************************************************************************)
(* One run: the state of start_benchmark's task, of execute_benchmark and  *)
(* of run_phase.                                                           *)
(***************************************************************************)
MaxCrashes == 1
MaxRequests == 2

RunId == "run-1"

Workers == 1..MaxConcurrency

PhaseNames == {"warmup", "measurement"}

NoPhase ==
    [name |-> "none", workload |-> NoWorkload, worker_count |-> 0, cancelled |-> FALSE,
     iteration_counter |-> 0, deadline_passed |-> FALSE, collect_samples |-> FALSE,
     spawned |-> 0, joined |-> 0, rx_open |-> FALSE]

IdleWorker == [pc |-> "unspawned", next |-> 0, attempt |-> 0, hold |-> <<>>]

NoLog ==
    [returned |-> "no", cancelled |-> FALSE, spawned |-> 0, crashed |-> 0, samples |-> <<>>,
     cancel_done_first |-> FALSE]

\* the ticket of a request of a duration-bounded phase: none is drawn
NoTicket == 0 - 1

RunIdle ==
    /\ run_pc = "idle"
    /\ run_status = "none"
    /\ result = <<>>
    /\ phase = NoPhase
    /\ workers = [w \in Workers |-> IdleWorker]
    /\ sample_chan = <<>>
    /\ attempts = <<>>
    /\ plog = [ph \in PhaseNames |-> NoLog]

\* the run's channel: the entry start_benchmark registered
RunChan == 1

Started(ph) == Cardinality({a \in 1..Len(attempts) : attempts[a].phase = ph})

Crashed == Cardinality({w \in Workers : workers[w].pc = "crashed"})

Live(w) == workers[w].pc \in {"top", "workload", "send", "body", "publish"}

\* what a request can come back with
SendOutcomes == {[kind |-> "err", err |-> TimeoutErr], Resp(200), Resp(404), Resp(503)}
BodyOutcomes == {BodyOk(60, "body"), [kind |-> "err", text |-> "connection reset"]}

\* what now_ms() and Instant::elapsed() return during the run, the request
\* template's bytes_out, and spec.logging
RunClock == [started_at_ms |-> 1000, completed_at |-> 1500, elapsed_ms |-> Ms(10),
             finished_at_ms |-> 2000]
RunTemplate == [bytes_out |-> 50]
RunLogging == [sample_errors_top_k |-> 0, save_bodies |-> "Errors"]

RunSample(send_outcome, body_outcome) ==
    execute_single_request(send_outcome, body_outcome, RunClock.elapsed_ms,
                           RunClock.completed_at, RunTemplate.bytes_out,
                           RunLogging.save_bodies)

RECURSIVE aggregate_loop(_, _)
aggregate_loop(acc, samples) ==
    IF samples = <<>> THEN acc
    ELSE aggregate_loop(aggregate_one(acc, Head(samples)), Tail(samples))

\* the results aggregate_samples can return
aggregate_samples(samples, started_at_ms, finished_at_ms, top_k_errors) ==
    LET acc == aggregate_loop(EmptyAcc, samples)
    IN {[summary |-> final_summary(acc, started_at_ms, finished_at_ms),
         timeseries |-> final_timeseries(acc.series),
         histogram |-> final_histogram(acc.histogram_counts),
         top_errors |-> top_errors] :
            top_errors \in final_top_errors(acc.top_error_map, top_k_errors)}

(***************************************************************************)
(* tokio::sync::broadcast as the registry uses it: channel(1), at most one *)
(* Sender per channel (never cloned), one send at most.                    *)
(***************************************************************************)
ChannelCapacity == 1

NewChannel == [tail |-> 0, tx |-> TRUE, closedBy |-> "open"]

NewReceiver(ch, pos) == [chan |-> ch, next |-> pos, fired |-> FALSE]

\* A try_recv that never reports a closed channel.
try_recv_never_closed(c, next) ==
    IF next < c.tail
    THEN IF c.tail - next > ChannelCapacity THEN "Lagged" ELSE "Ok"
    ELSE "Empty"

\* Receiver::try_recv: a value not yet read, else Closed once no Sender is
\* left, else Empty.
try_recv(c, next) ==
    IF next < c.tail
    THEN IF c.tail - next > ChannelCapacity THEN "Lagged" ELSE "Ok"
    ELSE IF ~c.tx THEN "Closed" ELSE "Empty"

next_after(c, next) ==
    CASE try_recv(c, next) = "Ok"     -> next + 1
      [] try_recv(c, next) = "Lagged" -> c.tail - ChannelCapacity
      [] OTHER                        -> next

\* Sender::send: the value is queued only when a receiver exists.
send(c, rx_cnt) == IF rx_cnt > 0 THEN [c EXCEPT !.tail = @ + 1] ELSE c

\* receivers alive on a channel: those handed out, and the resubscribed ones
\* the workers of the run own
rx_count(ch) ==
    Cardinality({r \in 1..Len(receivers) : receivers[r].chan = ch})
        + (IF ch = RunChan THEN Cardinality({w \in Workers : Live(w)}) ELSE 0)

\* A cancel_requested that takes only a received value for a cancellation.
cancel_requested_result_ok_only(c, next) == try_recv(c, next) = "Ok"

cancel_requested_result(c, next) == try_recv(c, next) # "Empty"

(***************************************************************************)
(* BenchmarkRegistry                                                       *)
(***************************************************************************)
NoHist == [registered |-> FALSE, calls |-> 0, trues |-> 0, removed |-> FALSE]

register_effect(id) ==
    /\ Len(chans) < MaxRegistrations
    /\ Len(receivers) < MaxReceivers
    /\ LET old == senders[id]
           new == Len(chans) + 1
           dropped == IF old # 0
                      THEN [chans EXCEPT ![old].tx = FALSE, ![old].closedBy = "replace"]
                      ELSE chans
       IN /\ chans' = Append(dropped, NewChannel)
          /\ senders' = [senders EXCEPT ![id] = new]
          /\ receivers' = Append(receivers, NewReceiver(new, 0))
    /\ hist' = [hist EXCEPT ![id] = [NoHist EXCEPT !.registered = TRUE]]
    /\ UNCHANGED cancelTx

register(id) == register_effect(id) /\ UNCHANGED <<spec, valVars, aggVars, reqVars, runVars>>

\* A cancel that looks the entry up but leaves it in the map.
cancel_take_keeps_entry(id) ==
    /\ hist[id].calls < MaxCancelCalls
    /\ IF senders[id] # 0
       THEN /\ cancelTx' = cancelTx \cup {senders[id]}
            /\ hist' = [hist EXCEPT ![id].calls = @ + 1, ![id].trues = @ + 1]
       ELSE /\ UNCHANGED cancelTx
            /\ hist' = [hist EXCEPT ![id].calls = @ + 1]
    /\ UNCHANGED <<senders, chans, receivers, spec, valVars, aggVars, reqVars, runVars>>

\* cancel, first half: senders.lock().unwrap().remove(id); the return value
\* is decided here.
cancel_take(id) ==
    /\ hist[id].calls < MaxCancelCalls
    /\ IF senders[id] # 0
       THEN /\ cancelTx' = cancelTx \cup {senders[id]}
            /\ senders' = [senders EXCEPT ![id] = 0]
            /\ hist' = [hist EXCEPT ![id].calls = @ + 1, ![id].trues = @ + 1]
       ELSE /\ UNCHANGED <<cancelTx, senders>>
            /\ hist' = [hist EXCEPT ![id].calls = @ + 1]
    /\ UNCHANGED <<chans, receivers, spec, valVars, aggVars, reqVars, runVars>>

\* cancel, second step: tx.send(()); the Sender taken from the map is still
\* alive, so the channel is not closed yet.
cancel_send(ch) ==
    /\ ch \in cancelTx
    /\ chans[ch].closedBy = "open"
    /\ chans' = [chans EXCEPT ![ch] =
                    [send(chans[ch], rx_count(ch)) EXCEPT !.closedBy = "sent"]]
    /\ UNCHANGED <<senders, receivers, cancelTx, hist, spec, valVars, aggVars, reqVars,
                   runVars>>

\* cancel, last step: tx goes out of scope at the end of the `if let` block,
\* which closes the channel; cancel has returned.
cancel_drop(ch) ==
    /\ ch \in cancelTx
    /\ chans[ch].closedBy = "sent"
    /\ cancelTx' = cancelTx \ {ch}
    /\ chans' = [chans EXCEPT ![ch].tx = FALSE, ![ch].closedBy = "cancel"]
    /\ UNCHANGED <<senders, receivers, hist, spec, valVars, aggVars, reqVars, runVars>>

\* A remove that leaves the entry in the map.
remove_effect_keeps_entry(id) ==
    /\ hist' = [hist EXCEPT ![id].removed = TRUE]
    /\ UNCHANGED <<senders, chans, receivers, cancelTx>>

remove_effect(id) ==
    /\ senders' = [senders EXCEPT ![id] = 0]
    /\ chans' = IF senders[id] # 0
                THEN [chans EXCEPT ![senders[id]].tx = FALSE, ![senders[id]].closedBy = "remove"]
                ELSE chans
    /\ hist' = [hist EXCEPT ![id].removed = TRUE]
    /\ UNCHANGED <<receivers, cancelTx>>

remove(id) == remove_effect(id) /\ UNCHANGED <<spec, valVars, aggVars, reqVars, runVars>>

(***************************************************************************)
(* Holders of a receiver                                                   *)
(***************************************************************************)
\* cancel_requested(&mut rx)
cancel_requested(r) ==
    /\ r \in 1..Len(receivers)
    /\ LET rx == receivers[r]
           c == chans[rx.chan]
       IN receivers' = [receivers EXCEPT ![r] =
              [chan |-> rx.chan, next |-> next_after(c, rx.next),
               fired |-> rx.fired \/ cancel_requested_result(c, rx.next)]]
    /\ UNCHANGED <<senders, chans, cancelTx, hist, spec, valVars, aggVars, reqVars, runVars>>

\* the branch `_ = cancel_rx.recv() => None` of a tokio::select!
recv_cancel(r) ==
    /\ r \in 1..Len(receivers)
    /\ LET rx == receivers[r]
           c == chans[rx.chan]
       IN /\ try_recv(c, rx.next) # "Empty"
          /\ receivers' = [receivers EXCEPT ![r] =
                 [chan |-> rx.chan, next |-> next_after(c, rx.next), fired |-> TRUE]]
    /\ UNCHANGED <<senders, chans, cancelTx, hist, spec, valVars, aggVars, reqVars, runVars>>

\* cancel_rx.resubscribe(): a new receiver positioned at the current tail
resubscribe(r) ==
    /\ r \in 1..Len(receivers)
    /\ Len(receivers) < MaxReceivers
    /\ receivers' = Append(receivers,
                           NewReceiver(receivers[r].chan, chans[receivers[r].chan].tail))
    /\ UNCHANGED <<senders, chans, cancelTx, hist, spec, valVars, aggVars, reqVars, runVars>>

NoAggIn == [samples |-> <<>>, started_at_ms |-> 0, finished_at_ms |-> 0, top_k_errors |-> 0]

AggregateIdle ==
    /\ agg_in = NoAggIn
    /\ agg_i = 0
    /\ agg_acc = EmptyAcc
    /\ agg_out = <<>>
    /\ agg_calls = <<>>

NoRequest == [send_outcome |-> Cancel, body_outcome |-> Cancel, elapsed_ms |-> 0,
              completed_at |-> 0, bytes_out |-> 0, save_bodies |-> "None",
              stage |-> "idle"]

RequestIdle ==
    /\ req = NoRequest
    /\ req_sample = <<>>

RegistryIdle ==
    /\ senders = [id \in Ids |-> 0]
    /\ chans = <<>>
    /\ receivers = <<>>
    /\ cancelTx = {}
    /\ hist = [id \in Ids |-> NoHist]

InitRegistry ==
    /\ RegistryIdle
    /\ spec = NoSpec
    /\ validated = <<>>
    /\ workloads = <<>>
    /\ AggregateIdle
    /\ RunIdle
    /\ RequestIdle


NextRegistry ==
    \/ \E id \in Ids : register(id)
    \/ \E id \in Ids : cancel_take(id)
    \/ \E ch \in cancelTx : cancel_send(ch)
    \/ \E ch \in cancelTx : cancel_drop(ch)
    \/ \E id \in Ids : remove(id)
    \/ \E r \in 1..MaxReceivers : cancel_requested(r)
    \/ \E r \in 1..MaxReceivers : recv_cancel(r)
    \/ \E r \in 1..MaxReceivers : resubscribe(r)

SpecRegistry == InitRegistry /\ [][NextRegistry]_vars

(***************************************************************************)
(* run_phase: the worker tasks                                             *)
(***************************************************************************)
notRun == <<spec, valVars, aggVars, reqVars>>

SetAttempt(a, status) == [attempts EXCEPT ![a].status = status]

\* A bound check that lets the ticket numbered `iterations` through.
ticket_exhausted_off_by_one(idx, iterations) == idx > iterations

\* if idx >= iterations { break; }
ticket_exhausted(idx, iterations) == idx >= iterations

\* A top-of-loop check that asks the worker's own receiver only.
top_check_ignores_flag(flag, received) == received

\* cancelled.load(Ordering::Relaxed) || cancel_requested(&mut worker_cancel_rx)
top_check(flag, received) == flag \/ received

\* top of the loop: the check, then cancelled.store(true) and break
WorkerTop(w) ==
    /\ workers[w].pc = "top"
    /\ LET c == chans[RunChan]
           next == workers[w].next
       IN IF top_check(phase.cancelled, cancel_requested_result(c, next))
          THEN /\ phase' = [phase EXCEPT !.cancelled = TRUE]
               /\ workers' = [workers EXCEPT ![w].pc = "done",
                                 ![w].next = IF phase.cancelled THEN next
                                             ELSE next_after(c, next)]
          ELSE /\ workers' = [workers EXCEPT ![w].pc = "workload"]
               /\ UNCHANGED phase
    /\ UNCHANGED <<regVars, notRun, run_pc, run_status, result, sample_chan, attempts, plog>>

\* A ticket counter whose increment is lost.
fetch_add_lost(counter) == counter

\* iteration_counter.fetch_add(1, Ordering::Relaxed): the counter afterwards
fetch_add(counter) == counter + 1

\* match workload { .. }: draw a ticket or look at the deadline, then start
\* the request
WorkerWorkload(w) ==
    /\ workers[w].pc = "workload"
    /\ LET iterations == phase.workload.kind = "Iterations"
           idx == phase.iteration_counter
           stop == IF iterations THEN ticket_exhausted(idx, phase.workload.bound)
                   ELSE phase.deadline_passed
       IN /\ iterations \/ phase.deadline_passed \/ Started(phase.name) < MaxRequests
          /\ phase' = IF iterations THEN [phase EXCEPT !.iteration_counter = fetch_add(idx)]
                      ELSE phase
          /\ IF stop
             THEN /\ workers' = [workers EXCEPT ![w].pc = "done"]
                  /\ UNCHANGED attempts
             ELSE /\ attempts' = Append(attempts,
                                       [phase |-> phase.name, status |-> "inflight",
                                        ticket |-> IF iterations THEN idx ELSE NoTicket,
                                        late |-> phase.cancelled])
                  /\ workers' = [workers EXCEPT ![w].pc = "send",
                                                ![w].attempt = Len(attempts) + 1]
    /\ UNCHANGED <<regVars, notRun, run_pc, run_status, result, sample_chan, plog>>

\* Instant::now() reaches the deadline of a duration-bounded phase
DeadlineElapses ==
    /\ phase.workload.kind = "DurationMs"
    /\ ~phase.deadline_passed
    /\ phase' = [phase EXCEPT !.deadline_passed = TRUE]
    /\ UNCHANGED <<regVars, notRun, run_pc, run_status, result, workers, sample_chan,
                   attempts, plog>>

\* select!: request.send() completes first
WorkerSend(w) ==
    /\ workers[w].pc = "send"
    /\ \E out \in SendOutcomes :
          IF out.kind = "ok"
          THEN /\ workers' = [workers EXCEPT ![w].pc = "body", ![w].hold = <<out>>]
               /\ UNCHANGED attempts
          ELSE /\ workers' = [workers EXCEPT ![w].pc = "publish",
                                 ![w].hold = <<RunSample(out, Cancel)>>]
               /\ attempts' = SetAttempt(workers[w].attempt, "finished")
    /\ UNCHANGED <<regVars, notRun, run_pc, run_status, result, phase, sample_chan, plog>>

\* select!: cancel_rx.recv() completes first
WorkerSendCancelled(w) ==
    /\ workers[w].pc = "send"
    /\ try_recv(chans[RunChan], workers[w].next) # "Empty"
    /\ workers' = [workers EXCEPT ![w].pc = "publish",
                                  ![w].next = next_after(chans[RunChan], @),
                                  ![w].hold = <<RunSample(Cancel, Cancel)>>]
    /\ attempts' = SetAttempt(workers[w].attempt, "cancelled")
    /\ UNCHANGED <<regVars, notRun, run_pc, run_status, result, phase, sample_chan, plog>>

\* handle_response, select!: response.bytes() completes first
WorkerBody(w) ==
    /\ workers[w].pc = "body"
    /\ \E body \in BodyOutcomes :
          workers' = [workers EXCEPT ![w].pc = "publish",
                                     ![w].hold = <<RunSample(workers[w].hold[1], body)>>]
    /\ attempts' = SetAttempt(workers[w].attempt, "finished")
    /\ UNCHANGED <<regVars, notRun, run_pc, run_status, result, phase, sample_chan, plog>>

\* handle_response, select!: cancel_rx.recv() completes first
WorkerBodyCancelled(w) ==
    /\ workers[w].pc = "body"
    /\ try_recv(chans[RunChan], workers[w].next) # "Empty"
    /\ workers' = [workers EXCEPT ![w].pc = "publish",
                                  ![w].next = next_after(chans[RunChan], @),
                                  ![w].hold = <<RunSample(workers[w].hold[1], Cancel)>>]
    /\ attempts' = SetAttempt(workers[w].attempt, "cancelled")
    /\ UNCHANGED <<regVars, notRun, run_pc, run_status, result, phase, sample_chan, plog>>

\* A worker that leaves its loop after any failed attempt.
after_sample_stop_on_failure(sample) ==
    IF sample.cancelled \/ ~sample.success THEN "done" ELSE "top"

\* if sample.cancelled { ..; break; } -- where the worker goes after a sample
after_sample(sample) == IF sample.cancelled THEN "done" ELSE "top"

\* the end of an iteration: the cancelled check, then sample_tx.send(sample)
WorkerPublish(w) ==
    /\ workers[w].pc = "publish"
    /\ LET sample == workers[w].hold[1]
       IN /\ workers' = [workers EXCEPT ![w].pc = after_sample(sample),
                                        ![w].hold = <<>>, ![w].attempt = 0]
          /\ phase' = IF sample.cancelled THEN [phase EXCEPT !.cancelled = TRUE] ELSE phase
          /\ sample_chan' = IF ~sample.cancelled /\ phase.collect_samples /\ phase.rx_open
                            THEN Append(sample_chan,
                                        [attempt |-> workers[w].attempt, sample |-> sample])
                            ELSE sample_chan
          /\ attempts' = IF ~sample.cancelled /\ phase.collect_samples /\ phase.rx_open
                         THEN SetAttempt(workers[w].attempt, "published")
                         ELSE attempts
    /\ UNCHANGED <<regVars, notRun, run_pc, run_status, result, plog>>

\* the task ends abnormally (a panic): the JoinHandle will yield a JoinError
WorkerCrash(w) ==
    /\ Live(w)
    /\ Crashed < MaxCrashes
    /\ workers' = [workers EXCEPT ![w].pc = "crashed", ![w].hold = <<>>, ![w].attempt = 0]
    /\ attempts' = IF workers[w].attempt # 0
                   THEN SetAttempt(workers[w].attempt, "crashed") ELSE attempts
    /\ plog' = [plog EXCEPT ![phase.name].crashed = @ + 1]
    /\ UNCHANGED <<regVars, notRun, run_pc, run_status, result, phase, sample_chan>>

(***************************************************************************)
(* run_phase: spawning, joining, draining                                  *)
(***************************************************************************)
\* A phase set-up that collects samples whatever the caller asked for.
begin_phase_always_collects(name, workload, concurrency, collect_samples) ==
    [name |-> name, workload |-> workload, worker_count |-> Max(concurrency, 1),
     cancelled |-> FALSE, iteration_counter |-> 0, deadline_passed |-> FALSE,
     collect_samples |-> TRUE, spawned |-> 0, joined |-> 0,
     rx_open |-> TRUE]

\* A phase set-up that spawns one worker more than the concurrency.
begin_phase_extra_worker(name, workload, concurrency, collect_samples) ==
    [name |-> name, workload |-> workload, worker_count |-> Max(concurrency, 1) + 1,
     cancelled |-> FALSE, iteration_counter |-> 0, deadline_passed |-> FALSE,
     collect_samples |-> collect_samples, spawned |-> 0, joined |-> 0,
     rx_open |-> collect_samples]

\* A phase that goes on with the counter and the flag of the phase before it.
begin_phase_keeps_counter(name, workload, concurrency, collect_samples) ==
    [name |-> name, workload |-> workload, worker_count |-> Max(concurrency, 1),
     cancelled |-> IF phase.name \in PhaseNames THEN phase.cancelled ELSE FALSE,
     iteration_counter |-> IF phase.name \in PhaseNames THEN phase.iteration_counter ELSE 0,
     deadline_passed |-> FALSE,
     collect_samples |-> collect_samples, spawned |-> 0, joined |-> 0,
     rx_open |-> collect_samples]

\* The locals run_phase sets up before it spawns the workers.
begin_phase(name, workload, concurrency, collect_samples) ==
    [name |-> name, workload |-> workload, worker_count |-> Max(concurrency, 1),
     cancelled |-> FALSE, iteration_counter |-> 0, deadline_passed |-> FALSE,
     collect_samples |-> collect_samples, spawned |-> 0, joined |-> 0,
     rx_open |-> collect_samples]

\* one turn of `for _ in 0..worker_count`: resubscribe, then tokio::spawn
SpawnWorker ==
    /\ run_pc = "spawn"
    /\ LET w == phase.spawned + 1
       IN /\ workers' = [workers EXCEPT ![w] =
                            [IdleWorker EXCEPT !.pc = "top", !.next = chans[RunChan].tail]]
          /\ phase' = [phase EXCEPT !.spawned = w]
          /\ run_pc' = IF w = phase.worker_count THEN "join" ELSE "spawn"
          /\ plog' = [plog EXCEPT ![phase.name].spawned = w,
                                  ![phase.name].cancel_done_first =
                                      IF w = 1 THEN chans[RunChan].closedBy = "cancel" ELSE @]
    /\ UNCHANGED <<regVars, notRun, run_status, result, sample_chan, attempts>>

\* A join loop that discards what handle.await yields.
join_outcome_ignores_crash(worker_pc) == "joined"

\* handle.await.map_err(..)? -- what awaiting a finished task yields
join_outcome(worker_pc) == IF worker_pc = "crashed" THEN "error" ELSE "joined"

\* one turn of `for handle in handles`
JoinWorker ==
    /\ run_pc = "join"
    /\ LET w == phase.joined + 1
       IN /\ workers[w].pc \in {"done", "crashed"}
          /\ IF join_outcome(workers[w].pc) = "error"
             THEN /\ result' = <<Err("Benchmark worker crashed: task panicked")>>
                  /\ plog' = [plog EXCEPT ![phase.name].returned = "err"]
                  /\ phase' = [phase EXCEPT !.rx_open = FALSE]
                  /\ run_pc' = "finish"
             ELSE /\ phase' = [phase EXCEPT !.joined = w]
                  /\ run_pc' = IF w = phase.worker_count THEN "drain" ELSE "join"
                  /\ UNCHANGED <<result, plog>>
    /\ UNCHANGED <<regVars, notRun, run_status, workers, sample_chan, attempts>>

\* A drain that stops one sample short.
drain_drops_last(queue) == IF queue = <<>> THEN <<>> ELSE SubSeq(queue, 1, Len(queue) - 1)

\* while let Some(sample) = sample_rx.recv().await { samples.push(sample) }
drain(queue) == queue

\* A runner that keeps its own sender of the sample channel while it drains.
runner_sender_kept(ph) == ph.collect_samples

\* drop(sample_tx) after the spawn loop: the runner holds no sender while it
\* joins and drains
runner_sender(ph) == FALSE

\* the senders of the sample channel still alive: the clone of every worker
\* task that has not ended, and the runner's own
SampleSenders ==
    {w \in Workers : Live(w)} \cup (IF runner_sender(phase) THEN {0} ELSE {})

\* the drain, which ends when the channel is empty and has no sender left,
\* and Ok(PhaseResult { .. })
PhaseReturn ==
    /\ run_pc = "drain"
    /\ phase.collect_samples => (SampleSenders = {})
    /\ plog' = [plog EXCEPT ![phase.name].returned = "ok",
                            ![phase.name].cancelled = phase.cancelled,
                            ![phase.name].samples =
                                IF phase.collect_samples THEN drain(sample_chan) ELSE <<>>]
    /\ sample_chan' = <<>>
    /\ phase' = [phase EXCEPT !.rx_open = FALSE]
    /\ run_pc' = IF phase.name = "warmup" THEN "after_warmup" ELSE "aggregate"
    /\ UNCHANGED <<regVars, notRun, run_status, result, workers, attempts>>

(***************************************************************************)
(* start_benchmark's task and execute_benchmark                            *)
(***************************************************************************)
\* The specs a run is started with: every way to fail validation or the
\* builders, every selected workload and every warmup workload; the bound of
\* the load mode that is not selected is left absent, and at most one warmup
\* bound is given.
RunSpecSpace ==
    {sp \in SpecSpace :
        /\ (sp.mode = "FixedIterations") => (sp.duration_ms = None)
        /\ (sp.mode = "FixedDuration") => (sp.iterations = None)
        /\ sp.warmup_iterations # 0
        /\ sp.warmup_duration_ms # 0
        /\ (sp.warmup_iterations = None) \/ (sp.warmup_duration_ms = None)}

\* start_benchmark up to the spawn of its task
StartBenchmark ==
    /\ run_pc = "idle"
    /\ register_effect(RunId)
    /\ run_status' = "queued"
    /\ run_pc' = "task"
    /\ UNCHANGED <<notRun, result, phase, workers, sample_chan, attempts, plog>>

TaskStart ==
    /\ run_pc = "task"
    /\ run_status' = "running"
    /\ run_pc' = "validate"
    /\ UNCHANGED <<regVars, notRun, result, phase, workers, sample_chan, attempts, plog>>

\* validate_spec(&spec)?
ExecValidate ==
    /\ run_pc = "validate"
    /\ IF validate_spec(spec).ok
       THEN run_pc' = "build_client" /\ UNCHANGED result
       ELSE run_pc' = "finish" /\ result' = <<validate_spec(spec)>>
    /\ UNCHANGED <<regVars, notRun, run_status, phase, workers, sample_chan, attempts, plog>>

\* build_client(&spec)?; builder.build() itself can fail
ExecBuildClient ==
    /\ run_pc = "build_client"
    /\ \E built \in BOOLEAN :
          IF ~spec.proxy_ok
          THEN run_pc' = "finish" /\ result' = <<Err("Invalid proxy URL")>>
          ELSE IF ~built
          THEN run_pc' = "finish" /\ result' = <<Err("Failed to build benchmark HTTP client")>>
          ELSE run_pc' = "build_template" /\ UNCHANGED result
    /\ UNCHANGED <<regVars, notRun, run_status, phase, workers, sample_chan, attempts, plog>>

\* build_request_template(&spec)?, then the choice of the first phase
ExecBuildTemplate ==
    /\ run_pc = "build_template"
    /\ IF ~spec.method_ok
       THEN run_pc' = "finish" /\ result' = <<Err("Invalid benchmark method")>>
                               /\ UNCHANGED phase
       ELSE IF ~spec.headers_ok
       THEN run_pc' = "finish" /\ result' = <<Err("Invalid header")>> /\ UNCHANGED phase
       ELSE /\ UNCHANGED result
            /\ run_pc' = "spawn"
            /\ phase' = IF warmup_workload(spec) # NoWorkload
                        THEN begin_phase("warmup", warmup_workload(spec),
                                         spec.concurrency, FALSE)
                        ELSE begin_phase("measurement", measurement_workload(spec).value,
                                         spec.concurrency, TRUE)
    /\ UNCHANGED <<regVars, notRun, run_status, workers, sample_chan, attempts, plog>>

\* A warmup check that goes on to measure whatever the warmup returned.
warmup_stops_run_never(warmup) == FALSE

\* if warmup.cancelled { return Ok(..) }
warmup_stops_run(warmup) == warmup.cancelled

ExecAfterWarmup ==
    /\ run_pc = "after_warmup"
    /\ IF warmup_stops_run(plog["warmup"])
       THEN /\ result' = <<Ok([metrics |-> DefaultMetrics, cancelled |-> TRUE])>>
            /\ run_pc' = "finish"
            /\ UNCHANGED <<phase, workers>>
       ELSE /\ phase' = begin_phase("measurement", measurement_workload(spec).value,
                                    spec.concurrency, TRUE)
            /\ workers' = [w \in Workers |-> IdleWorker]
            /\ run_pc' = "spawn"
            /\ UNCHANGED result
    /\ UNCHANGED <<regVars, notRun, run_status, sample_chan, attempts, plog>>

\* A result that reports a fixed cancelled flag.
execution_result_never_cancelled(metrics, measurement) ==
    Ok([metrics |-> metrics, cancelled |-> FALSE])

\* Ok(BenchmarkExecutionResult { metrics, cancelled: measurement.cancelled })
execution_result(metrics, measurement) ==
    Ok([metrics |-> metrics, cancelled |-> measurement.cancelled])

SamplesOf(wrapped) == [i \in 1..Len(wrapped) |-> wrapped[i].sample]

\* aggregate_samples(measurement.samples, ..)? and the Ok result
ExecAggregate ==
    /\ run_pc = "aggregate"
    /\ \E metrics \in aggregate_samples(SamplesOf(plog["measurement"].samples),
                                        RunClock.started_at_ms, RunClock.finished_at_ms,
                                        Max(RunLogging.sample_errors_top_k, 1)) :
          result' = <<execution_result(metrics, plog["measurement"])>>
    /\ run_pc' = "finish"
    /\ UNCHANGED <<regVars, notRun, run_status, phase, workers, sample_chan, attempts, plog>>

\* message.to_ascii_lowercase().contains("cancel"), over the messages a
\* run can fail with: only a JoinError of an aborted task is worded so
contains_cancel(message) == message = "Benchmark worker crashed: task was cancelled"

\* the task's match on the outcome: the status it writes to the run's row
final_status(outcome) ==
    IF outcome.ok
    THEN IF outcome.value.cancelled THEN "cancelled" ELSE "completed"
    ELSE IF contains_cancel(outcome.err) THEN "cancelled" ELSE "failed"

TaskFinish ==
    /\ run_pc = "finish"
    /\ run_status' = final_status(result[1])
    /\ run_pc' = "remove"
    /\ UNCHANGED <<regVars, notRun, result, phase, workers, sample_chan, attempts, plog>>

\* registry_for_task.remove(&run_id_for_task)
TaskRemove ==
    /\ run_pc = "remove"
    /\ remove_effect(RunId)
    /\ run_pc' = "done"
    /\ UNCHANGED <<notRun, run_status, result, phase, workers, sample_chan, attempts, plog>>

Init ==
    /\ RegistryIdle
    /\ spec \in RunSpecSpace
    /\ validated = <<>>
    /\ workloads = <<>>
    /\ AggregateIdle
    /\ RunIdle
    /\ RequestIdle

Next ==
    \/ StartBenchmark
    \/ TaskStart
    \/ ExecValidate
    \/ ExecBuildClient
    \/ ExecBuildTemplate
    \/ SpawnWorker
    \/ JoinWorker
    \/ PhaseReturn
    \/ ExecAfterWarmup
    \/ ExecAggregate
    \/ TaskFinish
    \/ TaskRemove
    \/ DeadlineElapses
    \/ cancel_take(RunId)
    \/ \E ch \in cancelTx : cancel_send(ch)
    \/ \E ch \in cancelTx : cancel_drop(ch)
    \/ \E w \in Workers :
          \/ WorkerTop(w)
          \/ WorkerWorkload(w)
          \/ WorkerSend(w)
          \/ WorkerSendCancelled(w)
          \/ WorkerBody(w)
          \/ WorkerBodyCancelled(w)
          \/ WorkerPublish(w)
          \/ WorkerCrash(w)

Spec == Init /\ [][Next]_vars

(***************************************************************************)
(* validate_spec and the workload selectors applied to each spec           *)
(***************************************************************************)
InitValidate ==
    /\ RegistryIdle
    /\ spec \in SpecSpace
    /\ validated = <<>>
    /\ workloads = <<>>
    /\ AggregateIdle
    /\ RunIdle
    /\ RequestIdle

CallValidateSpec ==
    /\ validated = <<>>
    /\ validated' = <<validate_spec(spec)>>
    /\ UNCHANGED <<regVars, spec, workloads, aggVars, reqVars, runVars>>

CallWorkloads ==
    /\ workloads = <<>>
    /\ workloads' = <<measurement_workload(spec), warmup_workload(spec)>>
    /\ UNCHANGED <<regVars, spec, validated, aggVars, reqVars, runVars>>

NextValidate == CallValidateSpec \/ CallWorkloads

SpecValidate == InitValidate /\ [][NextValidate]_vars

SelectedBoundPositive(sp) ==
    \/ sp.mode = "FixedIterations" /\ sp.iterations # None /\ sp.iterations > 0
    \/ sp.mode = "FixedDuration" /\ sp.duration_ms # None /\ sp.duration_ms > 0

\* C8: validate_spec returns Ok exactly when concurrency > 0, timeout_ms > 0
\* and the bound of the selected load mode is present and positive, whatever
\* the bound of the other mode is.
C8_ValidateSpecOkIff ==
    validated # <<>> =>
        (validated[1].ok <=> (/\ spec.concurrency > 0
                           /\ spec.timeout_ms > 0
                           /\ SelectedBoundPositive(spec)))

C8_Witness ==
    /\ validated # <<>>
    /\ validated[1].ok
    /\ spec.mode = "FixedDuration"
    /\ spec.iterations = 0
    /\ spec.duration_ms = 1

(***************************************************************************)
(* aggregate_samples applied to bounded sample lists                       *)
(***************************************************************************)
MaxSamples == 3
MaxTopK == 2

\* Samples execute_single_request produces, for a template of 50 bytes.
SampleSpace ==
    {execute_single_request(Resp(200), BodyOk(60, "ok"), Ms(10), 1000, 50, "None"),
     execute_single_request(Resp(200), BodyOk(60, "ok"), Ms(20), 1999, 50, "None"),
     execute_single_request(Resp(503), BodyOk(9000, "busy"), 1, 2000, 50, "Errors"),
     execute_single_request(Resp(503), BodyOk(9000, "busy"), Ms(40), 2000, 50, "None"),
     execute_single_request(Resp(404), BodyOk(0, "empty"), Ms(30), 1000, 50, "Errors"),
     execute_single_request([kind |-> "err", err |-> TimeoutErr], Cancel, Ms(61000), 2500, 50, "None"),
     execute_single_request(Resp(200), [kind |-> "err", text |-> "connection reset"],
                            Ms(1), 1000, 50, "None"),
     execute_single_request(Cancel, Cancel, Ms(5), 1000, 50, "None"),
     execute_single_request(Resp(200), Cancel, Ms(5), 2000, 50, "Errors"),
     execute_single_request(Resp(500), BodyOk(10, "oops"), Ms(20), 2999, 50, "Errors"),
     execute_single_request(Resp(503), BodyOk(10, "down"), Ms(40), 2000, 50, "Errors")}

SampleLists == UNION {[1..n -> SampleSpace] : n \in 0..MaxSamples}

InitAggregate ==
    /\ RegistryIdle
    /\ spec = NoSpec
    /\ validated = <<>>
    /\ workloads = <<>>
    /\ agg_in \in [samples : SampleLists,
                    started_at_ms : {0, 1000},
                    finished_at_ms : {1000},
                    top_k_errors : 0..MaxTopK]
    /\ agg_i = 0
    /\ agg_acc = EmptyAcc
    /\ agg_out = <<>>
    /\ agg_calls = <<>>
    /\ RunIdle
    /\ RequestIdle

\* for sample in samples { ... }
AggregateLoop ==
    /\ agg_out = <<>>
    /\ agg_i < Len(agg_in.samples)
    /\ agg_i' = agg_i + 1
    /\ agg_acc' = aggregate_one(agg_acc, agg_in.samples[agg_i + 1])
    /\ UNCHANGED <<regVars, spec, valVars, agg_in, agg_out, agg_calls, reqVars, runVars>>

\* everything after the loop, up to Ok(BenchmarkAggregatedMetrics { .. })
AggregateReturn ==
    /\ agg_out = <<>>
    /\ agg_i = Len(agg_in.samples)
    /\ \E top_errors \in final_top_errors(agg_acc.top_error_map, agg_in.top_k_errors) :
           agg_out' = <<[summary |-> final_summary(agg_acc, agg_in.started_at_ms,
                                                  agg_in.finished_at_ms),
                        timeseries |-> final_timeseries(agg_acc.series),
                        histogram |-> final_histogram(agg_acc.histogram_counts),
                        top_errors |-> top_errors]>>
    /\ UNCHANGED <<regVars, spec, valVars, agg_in, agg_i, agg_acc, agg_calls, reqVars, runVars>>

MaxCalls == 2

\* Accumulators that outlive the call: the next call starts from what the
\* call before left in them.
accumulators_kept(previous) == previous

\* let mut summary = ..::default(); .. let mut top_error_map = HashMap::new():
\* the locals a call starts from, whatever the call before left behind
new_accumulators(previous) == EmptyAcc

\* aggregate_samples is called again with the same arguments
AggregateAgain ==
    /\ agg_out # <<>>
    /\ Len(agg_calls) + 1 < MaxCalls
    /\ agg_calls' = Append(agg_calls, agg_out[1])
    /\ agg_out' = <<>>
    /\ agg_i' = 0
    /\ agg_acc' = new_accumulators(agg_acc)
    /\ UNCHANGED <<regVars, spec, valVars, agg_in, reqVars, runVars>>

NextAggregate == AggregateLoop \/ AggregateReturn \/ AggregateAgain

SpecAggregate == InitAggregate /\ [][NextAggregate]_vars

NotCancelled(samples, upto) == {k \in 1..upto : ~samples[k].cancelled}

LoopCountsOk ==
    LET counted == Cardinality(NotCancelled(agg_in.samples, agg_i))
    IN /\ agg_acc.summary.total_requests = counted
       /\ agg_acc.summary.success_count + agg_acc.summary.error_count = counted

ReturnedCountsOk ==
    agg_out # <<>> =>
        LET counted == Cardinality(NotCancelled(agg_in.samples, Len(agg_in.samples)))
            sm == agg_out[1].summary
        IN /\ sm.total_requests = counted
           /\ sm.success_count + sm.error_count = counted

CancelledSampleChangesNothing ==
    (agg_i' = agg_i + 1 /\ agg_in.samples[agg_i'].cancelled) => agg_acc' = agg_acc

\* C10: the totals aggregate_samples reports satisfy total_requests =
\* success_count + error_count = number of input samples with cancelled=false,
\* and consuming a sample with cancelled=true leaves every accumulator
\* (counters, byte totals, histograms, series buckets, error entries) as it was.
C10_CancelledSamplesExcluded ==
    [](LoopCountsOk /\ ReturnedCountsOk) /\ [][CancelledSampleChangesNothing]_vars

C10_Witness ==
    /\ agg_out # <<>>
    /\ Len(agg_in.samples) = 3
    /\ agg_in.samples[1].cancelled
    /\ ~agg_in.samples[2].cancelled /\ ~agg_in.samples[2].success
    /\ ~agg_in.samples[3].cancelled /\ agg_in.samples[3].success
    /\ agg_out[1].summary.total_requests = 2

(***************************************************************************)
(* Claims about the registry                                               *)
(***************************************************************************)
CancelCountsOk ==
    \A id \in Ids :
        /\ hist[id].trues <= 1
        /\ (~hist[id].registered) => hist[id].trues = 0
        /\ (hist[id].registered /\ ~hist[id].removed /\ hist[id].calls >= 1)
              => hist[id].trues = 1

FalseCancelIsSilent ==
    \A id \in Ids :
        (/\ hist'[id].calls = hist[id].calls + 1
         /\ (~hist[id].registered \/ hist[id].trues >= 1 \/ hist[id].removed))
        => /\ hist'[id].trues = hist[id].trues
           /\ UNCHANGED <<chans, cancelTx, senders, receivers>>

\* C5: between two registrations of an id at most one cancel(id) returns true,
\* and exactly one does when cancel is called at all and no remove intervened;
\* a cancel on an id that was never registered, was already cancelled or was
\* removed returns false and changes no channel, sender or receiver.
C5_CancelReturnsTrueOnce == [](CancelCountsOk) /\ [][FalseCancelIsSilent]_vars

C5_Witness ==
    \E id \in Ids :
        /\ hist[id].registered /\ ~hist[id].removed
        /\ hist[id].calls = 2 /\ hist[id].trues = 1
        /\ chans[1].tail = 1

\* C6: no receiver observes a cancellation on a channel that remove() closed.
C6_RemoveDoesNotFire ==
    \A r \in 1..Len(receivers) :
        receivers[r].fired => chans[receivers[r].chan].closedBy # "remove"

(***************************************************************************)
(* Properties of a run (specification Spec)                                *)
(***************************************************************************)
MeasurementAttempts == {a \in 1..Len(attempts) : attempts[a].phase = "measurement"}

Returned == run_pc \in {"finish", "remove", "done"}

WorkloadOf(ph) ==
    IF ph = "warmup" THEN warmup_workload(spec)
    ELSE IF measurement_workload(spec).ok THEN measurement_workload(spec).value
    ELSE NoWorkload

\* C1: in a phase bounded by Iterations(n), whatever the worker count, the
\* order of the workers' draws on the shared counter and the cancellation,
\* the number of requests started in the phase never exceeds n.
C1_IterationsNeverExceeded ==
    \A ph \in PhaseNames :
        /\ (WorkloadOf(ph).kind = "Iterations") => (Started(ph) <= WorkloadOf(ph).bound)
        /\ (phase.name = ph /\ phase.workload.kind = "Iterations")
              => (Started(ph) <= phase.workload.bound)

\* C1 witness: two workers raced on a bound of two iterations: both tickets
\* were used, and each worker then drew a ticket past the bound.
C1_Witness ==
    /\ phase.name = "measurement"
    /\ phase.workload = Iterations(2)
    /\ phase.worker_count = 2
    /\ Started("measurement") = 2
    /\ phase.iteration_counter = 4

FailedSample(sample) == ~sample.cancelled /\ ~sample.success

PublishedIds == [i \in 1..Len(plog["measurement"].samples) |->
                    plog["measurement"].samples[i].attempt]

NoDuplicates(seq) == \A i, j \in 1..Len(seq) : (seq[i] = seq[j]) => (i = j)

\* once the measurement phase has returned Ok: one sample per attempt that
\* finished without being cancelled, none for a cancelled one
SamplesAreTheFinishedAttempts ==
    (plog["measurement"].returned = "ok") =>
        /\ NoDuplicates(PublishedIds)
        /\ {PublishedIds[i] : i \in 1..Len(PublishedIds)}
              = {a \in MeasurementAttempts : attempts[a].status # "cancelled"}
        /\ \A a \in MeasurementAttempts : attempts[a].status \in {"published", "cancelled"}
        /\ \A i \in 1..Len(PublishedIds) : ~plog["measurement"].samples[i].sample.cancelled

\* run_phase fails only when a worker task was lost
PhaseErrOnlyByCrash ==
    \A ph \in PhaseNames : (plog[ph].returned = "err") => (plog[ph].crashed > 0)

\* the step a measurement worker takes with a failed sample in hand
FailedAttemptKeepsLooping ==
    \A w \in Workers :
        (/\ phase.name = "measurement"
         /\ workers[w].pc = "publish"
         /\ FailedSample(workers[w].hold[1])
         /\ workers'[w].pc \notin {"publish", "crashed"})
        => /\ workers'[w].pc = "top"
           /\ phase.rx_open =>
                 sample_chan' = Append(sample_chan, [attempt |-> workers[w].attempt,
                                                     sample |-> workers[w].hold[1]])
           /\ UNCHANGED <<result, plog, run_pc>>

\* C2: in the measurement phase an attempt that ends in a transport failure,
\* a body-read failure or an HTTP 4xx/5xx status does not stop its worker
\* and does not make run_phase fail: the worker publishes the sample and
\* goes back to the top of its loop.  When run_phase returns Ok its samples
\* are exactly one per attempt that finished uncancelled, none cancelled.
C2_FailuresAreSamples ==
    /\ [](SamplesAreTheFinishedAttempts /\ PhaseErrOnlyByCrash)
    /\ [][FailedAttemptKeepsLooping]_vars

\* C2 witness: a single worker's first attempt failed, it went on to a
\* second attempt, and the phase returned Ok with both samples.
C2_Witness ==
    /\ spec.concurrency = 1
    /\ plog["measurement"].returned = "ok"
    /\ Len(plog["measurement"].samples) = 2
    /\ FailedSample(plog["measurement"].samples[1].sample)
    /\ plog["measurement"].samples[1].sample.error_type = Some("TIMEOUT")

CancelledEmptyResult == Ok([metrics |-> DefaultMetrics, cancelled |-> TRUE])

WarmupEndedCancelled == plog["warmup"].returned = "ok" /\ plog["warmup"].cancelled

\* C3: when the warmup phase ends with its cancelled flag set,
\* execute_benchmark returns Ok with cancelled = true and the all-zero
\* default metrics; no measurement worker is spawned and no measurement
\* request is issued.
C3_CancelledWarmupSkipsMeasurement ==
    WarmupEndedCancelled =>
        /\ warmup_workload(spec) # NoWorkload
        /\ plog["measurement"].spawned = 0
        /\ Started("measurement") = 0
        /\ phase.name = "warmup"
        /\ run_pc \in {"after_warmup", "finish", "remove", "done"}
        /\ (run_pc # "after_warmup") => (result = <<CancelledEmptyResult>>)

\* C3 witness: a run whose warmup was cancelled after a warmup request was
\* started has returned.
C3_Witness ==
    /\ WarmupEndedCancelled
    /\ Started("warmup") > 0
    /\ run_pc = "done"
    /\ result = <<CancelledEmptyResult>>
    /\ run_status = "cancelled"

CancelObserved ==
    /\ phase.name = "measurement"
    /\ \/ phase.cancelled
       \/ \E a \in MeasurementAttempts : attempts[a].status = "cancelled"

MeasurementMetrics ==
    aggregate_samples(SamplesOf(plog["measurement"].samples), RunClock.started_at_ms,
                      RunClock.finished_at_ms, Max(RunLogging.sample_errors_top_k, 1))

\* C4: when cancellation is observed during the measurement phase and no
\* worker crashes, neither run_phase nor execute_benchmark returns an
\* error: the result is Ok, its cancelled flag is the phase's flag, which is
\* true, and its metrics are the aggregate of exactly the samples that were
\* published.
C4_CancellationIsNotAnError ==
    (CancelObserved /\ plog["measurement"].crashed = 0) =>
        /\ plog["measurement"].returned # "err"
        /\ (plog["measurement"].returned = "ok") =>
              /\ plog["measurement"].cancelled
              /\ {PublishedIds[i] : i \in 1..Len(PublishedIds)}
                    = {a \in MeasurementAttempts : attempts[a].status = "published"}
        /\ Returned =>
              /\ result[1].ok
              /\ result[1].value.cancelled = plog["measurement"].cancelled
              /\ result[1].value.cancelled
              /\ result[1].value.metrics \in MeasurementMetrics

\* C4 witness: a measurement of two iterations was cancelled after one
\* sample had been published; the run returned that partial aggregate.
C4_Witness ==
    /\ run_pc = "done"
    /\ phase.workload = Iterations(2)
    /\ CancelObserved
    /\ Len(plog["measurement"].samples) = 1
    /\ result[1].ok
    /\ result[1].value.cancelled
    /\ result[1].value.metrics.summary.total_requests = 1
    /\ run_status = "cancelled"

\* the specs the claim calls invalid, in the claim's terms
FailsValidation(sp) ==
    \/ sp.concurrency = 0
    \/ sp.timeout_ms = 0
    \/ sp.mode = "FixedIterations" /\ sp.iterations \in {None, 0}
    \/ sp.mode = "FixedDuration" /\ sp.duration_ms \in {None, 0}

Malformed(sp) == ~sp.method_ok \/ ~sp.headers_ok \/ ~sp.proxy_ok

\* C7: for a spec that fails validation or whose method, headers or proxy
\* URL are malformed, execute_benchmark returns an error; no worker is
\* spawned and no warmup or measurement request is started.
C7_InvalidSpecFailsFast ==
    (FailsValidation(spec) \/ Malformed(spec)) =>
        /\ \A ph \in PhaseNames : plog[ph].spawned = 0 /\ Started(ph) = 0
        /\ \A w \in Workers : workers[w].pc = "unspawned"
        /\ phase = NoPhase
        /\ run_pc \in {"idle", "task", "validate", "build_client", "build_template",
                       "finish", "remove", "done"}
        /\ Returned => ~result[1].ok

\* C7 witness: a fixed-duration spec with durationMs = 0, valid otherwise
\* and with a warmup configured, has been refused.
C7_Witness ==
    /\ spec.mode = "FixedDuration"
    /\ spec.duration_ms = 0
    /\ spec.concurrency > 0
    /\ spec.timeout_ms > 0
    /\ ~Malformed(spec)
    /\ warmup_workload(spec) # NoWorkload
    /\ run_pc = "done"
    /\ result = <<Err("Benchmark fixed_duration mode requires durationMs > 0")>>
    /\ run_status = "failed"

\* C9: when a worker task of a phase ends abnormally, run_phase does not
\* return Ok and execute_benchmark returns an error, without metrics: no Ok
\* result is built from the samples of the workers that remain.
C9_CrashFailsTheRun ==
    \A ph \in PhaseNames :
        (plog[ph].crashed > 0) =>
            /\ plog[ph].returned # "ok"
            /\ run_pc \notin {"drain", "aggregate"}
            /\ (plog[ph].returned = "err") => Returned
            /\ Returned => (result = <<Err("Benchmark worker crashed: task panicked")>>)

\* C9 witness: a measurement worker crashed after a sample had been
\* published; the run failed and the sample went into no result.
C9_Witness ==
    /\ plog["measurement"].crashed = 1
    /\ plog["measurement"].returned = "err"
    /\ \E a \in MeasurementAttempts : attempts[a].status = "published"
    /\ run_pc = "done"
    /\ ~result[1].ok
    /\ run_status = "failed"

(***************************************************************************)
(* Properties of what aggregate_samples returns (specification             *)
(* SpecAggregate)                                                          *)
(***************************************************************************)
\* the positions of the input samples that are not cancelled
Counted == NotCancelled(agg_in.samples, Len(agg_in.samples))

AggReturned == agg_out # <<>>

\* the display bucket a latency belongs to, read off the bucket's bounds: the
\* last bucket also takes every latency from its upper bound on
InDisplayBucket(latency, bucket) ==
    /\ latency >= bucket.lower_bound_ms * UnitsPerMs
    /\ \/ latency < bucket.upper_bound_ms * UnitsPerMs
       \/ bucket.upper_bound_ms = HISTOGRAM_EDGES_MS[Len(HISTOGRAM_EDGES_MS)]

\* C11: the counts of the emitted histogram buckets sum to
\* summary.total_requests and no emitted bucket has count 0: every sample
\* that is not cancelled, whatever its latency, is counted in exactly one
\* display bucket.
C11_HistogramCountsEverySample ==
    AggReturned =>
        LET histogram == agg_out[1].histogram
            n == Len(histogram)
        IN /\ SumSeq([i \in 1..n |-> histogram[i].count]) = agg_out[1].summary.total_requests
           /\ \A i \in 1..n : histogram[i].count > 0
           /\ \A i \in 1..n :
                 histogram[i].count =
                     Cardinality({k \in Counted :
                                     InDisplayBucket(agg_in.samples[k].latency, histogram[i])})
           /\ \A k \in Counted :
                 Cardinality({i \in 1..n :
                                 InDisplayBucket(agg_in.samples[k].latency, histogram[i])}) = 1

\* C11 witness: three counted samples, one of them slower than the last
\* edge (61 s) and one faster than a microsecond, fill distinct buckets.
C11_Witness ==
    /\ AggReturned
    /\ agg_out[1].summary.total_requests = 3
    /\ Len(agg_out[1].histogram) = 3
    /\ \E k \in Counted : agg_in.samples[k].latency = Ms(61000)
    /\ \E k \in Counted : agg_in.samples[k].latency = 1
    /\ agg_out[1].histogram[3] = [lower_bound_ms |-> 45000, upper_bound_ms |-> 60000, count |-> 1]

\* C12: over the emitted time-series points, the rps_success values sum to
\* summary.success_count, the rps_error values to summary.error_count, and
\* both together to summary.total_requests.
C12_TimeseriesSumsToTotals ==
    AggReturned =>
        LET timeseries == agg_out[1].timeseries
            n == Len(timeseries)
            summary == agg_out[1].summary
            successes == SumSeq([i \in 1..n |-> timeseries[i].rps_success])
            errors == SumSeq([i \in 1..n |-> timeseries[i].rps_error])
        IN /\ successes = summary.success_count
           /\ errors = summary.error_count
           /\ successes + errors = summary.total_requests
           /\ summary.total_requests = Cardinality(Counted)

\* C12 witness: successes and failures spread over two one-second buckets,
\* next to a cancelled sample.
C12_Witness ==
    /\ AggReturned
    /\ Len(agg_out[1].timeseries) = 2
    /\ agg_out[1].summary.success_count = 1
    /\ agg_out[1].summary.error_count = 1
    /\ agg_out[1].timeseries[1].rps_success = 1
    /\ agg_out[1].timeseries[2].rps_error = 1
    /\ Len(agg_in.samples) = 3

\* the positions of the counted samples that carry an error type, and the
\* (error type, status code, message) triple of a sample
Errored == {k \in Counted : agg_in.samples[k].error_type # NoneOpt}

Triple(sample) == <<sample.error_type, sample.status_code, sample.error_message>>

Triples == {Triple(agg_in.samples[k]) : k \in Errored}

CountOf(triple) == Cardinality({k \in Errored : Triple(agg_in.samples[k]) = triple})

EntryTriple(entry) == <<Some(entry.error_type), entry.status_code, Some(entry.message)>>

\* C13: top_errors has exactly min(max(cap, 1), D) entries, D the number of
\* distinct (error type, status code, message) triples among the counted
\* samples with an error type; the entries are in descending order of count
\* and, at equal counts, in ascending order of error-type name; no triple
\* left out has a larger count than one that was kept.
C13_TopErrorsSortedAndCapped ==
    AggReturned =>
        LET top_errors == agg_out[1].top_errors
            n == Len(top_errors)
            kept == {EntryTriple(top_errors[i]) : i \in 1..n}
        IN /\ n = Min(Max(agg_in.top_k_errors, 1), Cardinality(Triples))
           /\ \A i, j \in 1..n :
                 i < j =>
                     \/ top_errors[i].count > top_errors[j].count
                     \/ /\ top_errors[i].count = top_errors[j].count
                        /\ NameRank(top_errors[i].error_type)
                              <= NameRank(top_errors[j].error_type)
           /\ kept \subseteq Triples
           /\ Cardinality(kept) = n
           /\ \A i \in 1..n : top_errors[i].count = CountOf(EntryTriple(top_errors[i]))
           /\ \A triple \in Triples \ kept : \A i \in 1..n : CountOf(triple) <= top_errors[i].count

\* C13 witness: three distinct triples, each seen once, against a cap of
\* two: the two kept are those whose type names sort first.
C13_Witness ==
    /\ AggReturned
    /\ agg_in.top_k_errors = 2
    /\ Cardinality(Triples) = 3
    /\ Len(agg_out[1].top_errors) = 2
    /\ agg_out[1].top_errors[1].error_type = "HTTP_STATUS_4XX"
    /\ agg_out[1].top_errors[2].error_type = "HTTP_STATUS_5XX"

\* r is x = num / den rounded to the nearest whole number, halves upward
\* (x >= 0, den > 0): x - 1/2 < r <= x + 1/2
IsRounded(r, num, den) == 2 * num - den < 2 * r * den /\ 2 * r * den <= 2 * num + den

\* C14: summary.error_rate is error_count / total_requests * 100 rounded to
\* three decimals when total_requests > 0 and 0 when total_requests = 0; for
\* an empty or all-cancelled input every summary number is 0 and the time
\* series, the histogram and top_errors are empty.  (error_rate is held in
\* thousandths of a percent.)
C14_ErrorRateRounded ==
    AggReturned =>
        LET summary == agg_out[1].summary
        IN /\ summary.total_requests = Cardinality(Counted)
           /\ summary.error_count
                 = Cardinality({k \in Counted : ~agg_in.samples[k].success})
           /\ (summary.total_requests > 0) =>
                 IsRounded(summary.error_rate, summary.error_count * 100 * 1000,
                           summary.total_requests)
           /\ (Counted = {}) => (agg_out[1] = DefaultMetrics)

\* C14 witness: two failures in three counted samples give 66.667 percent.
C14_Witness ==
    /\ AggReturned
    /\ agg_out[1].summary.total_requests = 3
    /\ agg_out[1].summary.error_count = 2
    /\ agg_out[1].summary.error_rate = 66667

LoopDone == agg_i = Len(agg_in.samples)

ErrorTypes == {agg_in.samples[k].error_type[1] : k \in Errored}

MaxCount == CHOOSE c \in {CountOf(t) : t \in Triples} : \A t \in Triples : CountOf(t) <= c

\* C15: error samples are merged by (error type, status code, message): when
\* the loop is over, before the sort and the cut, the map has exactly one
\* entry per distinct triple, whose count is the number of counted samples
\* with that triple; error_type_counts[t] is the number of counted samples
\* of error type t; the first entry of top_errors has the largest count of
\* all triples.
C15_ErrorsMergedByTriple ==
    /\ LoopDone =>
          LET map == agg_acc.top_error_map
              counts == agg_acc.summary.error_type_counts
          IN /\ {EntryTriple(map[key]) : key \in DOMAIN map} = Triples
             /\ Cardinality(DOMAIN map) = Cardinality(Triples)
             /\ \A key \in DOMAIN map : map[key].count = CountOf(EntryTriple(map[key]))
             /\ DOMAIN counts = ErrorTypes
             /\ \A t \in ErrorTypes :
                   counts[t] = Cardinality({k \in Errored : agg_in.samples[k].error_type[1] = t})
    /\ AggReturned =>
          /\ agg_out[1].summary.error_type_counts = agg_acc.summary.error_type_counts
          /\ (Triples = {}) = (agg_out[1].top_errors = <<>>)
          /\ (Triples # {}) => (agg_out[1].top_errors[1].count = MaxCount)

\* C15 witness: HTTP 500 once and HTTP 503 twice, with different bodies:
\* one error type, two triples, the first entry counting two.
C15_Witness ==
    /\ AggReturned
    /\ Len(agg_in.samples) = 3
    /\ Cardinality(Triples) = 2
    /\ ErrorTypes = {"HTTP_STATUS_5XX"}
    /\ agg_acc.summary.error_type_counts["HTTP_STATUS_5XX"] = 3
    /\ agg_out[1].top_errors[1].count = 2
    /\ agg_out[1].top_errors[1].status_code = Some(503)
    /\ agg_in.samples[1].sample_body # agg_in.samples[3].sample_body
    /\ agg_in.samples[1].status_code = agg_in.samples[3].status_code

\* C16: for a non-empty set of counted samples the reported percentiles
\* satisfy p50_ms <= p90_ms <= p95_ms <= p99_ms <= max_ms.  (All five are in
\* thousandths of a millisecond.)
C16_PercentilesOrdered ==
    (AggReturned /\ Counted # {}) =>
        LET latency == agg_out[1].summary.latency
        IN /\ latency.p50_ms <= latency.p90_ms
           /\ latency.p90_ms <= latency.p95_ms
           /\ latency.p95_ms <= latency.p99_ms
           /\ latency.p99_ms <= latency.max_ms

\* the part of C16 that is among the percentiles themselves
PercentilesAscending ==
    (AggReturned /\ Counted # {}) =>
        LET latency == agg_out[1].summary.latency
        IN /\ latency.p50_ms <= latency.p90_ms
           /\ latency.p90_ms <= latency.p95_ms
           /\ latency.p95_ms <= latency.p99_ms

OrdersOf(n) == {p \in [1..n -> 1..n] : \A i, j \in 1..n : (p[i] = p[j]) => (i = j)}

Permuted(samples, p) == [i \in 1..Len(samples) |-> samples[p[i]]]

\* the parts of a result the order of the input must not show in
Counters(metrics) ==
    [total_requests |-> metrics.summary.total_requests,
     success_count |-> metrics.summary.success_count,
     error_count |-> metrics.summary.error_count,
     bytes_in |-> metrics.summary.bytes_in,
     bytes_out |-> metrics.summary.bytes_out,
     status_code_counts |-> metrics.summary.status_code_counts,
     error_type_counts |-> metrics.summary.error_type_counts,
     histogram |-> metrics.histogram,
     series |-> [i \in 1..Len(metrics.timeseries) |->
                    <<metrics.timeseries[i].bucket_ts_ms, metrics.timeseries[i].rps_success,
                      metrics.timeseries[i].rps_error>>]]

\* C17: aggregation does not depend on the order of the input: for every
\* permutation of the sample list aggregate_samples yields the same summary
\* counters, byte totals, status-code and error-type counts, the same
\* histogram buckets and the same time-series bucket counts.
C17_OrderIndependent ==
    AggReturned =>
        \A p \in OrdersOf(Len(agg_in.samples)) :
            \A other \in aggregate_samples(Permuted(agg_in.samples, p), agg_in.started_at_ms,
                                           agg_in.finished_at_ms, agg_in.top_k_errors) :
                Counters(other) = Counters(agg_out[1])

\* C17 witness: three different samples (a success, a failure in another
\* second, a cancelled one) were aggregated; their six orders are compared.
C17_Witness ==
    /\ AggReturned
    /\ Len(agg_in.samples) = 3
    /\ agg_in.samples[1].success
    /\ agg_in.samples[2].cancelled
    /\ ~agg_in.samples[3].success /\ ~agg_in.samples[3].cancelled
    /\ Len(agg_out[1].timeseries) = 2
    /\ Len(agg_out[1].histogram) = 2

\* C18: aggregating the same sample list again, with the same timestamps
\* and cap, yields the same summary numbers: nothing a call leaves behind
\* is read by the next one.
C18_RepeatedCallSameSummary ==
    /\ AggReturned =>
          \A i \in 1..Len(agg_calls) : agg_calls[i].summary = agg_out[1].summary
    /\ (agg_i = 0) => (agg_acc = EmptyAcc)

\* C18 witness: a second call on three samples, two of them counted, has
\* returned.
C18_Witness ==
    /\ AggReturned
    /\ Len(agg_calls) = 1
    /\ Len(agg_in.samples) = 3
    /\ agg_out[1].summary.total_requests = 2
    /\ agg_out[1].summary.error_count = 1
    /\ agg_calls[1].summary = agg_out[1].summary

\* the start of the second a timestamp falls in: the greatest multiple of
\* 1000 not above it
SecondOf(timestamp_ms) ==
    CHOOSE s \in 0..timestamp_ms : s % 1000 = 0 /\ s <= timestamp_ms /\ timestamp_ms < s + 1000

SecondKeys == {SecondOf(agg_in.samples[k].timestamp_ms) : k \in Counted}

\* C19: every counted sample is counted in the time-series bucket keyed by
\* its timestamp rounded down to the second; the emitted series has one
\* point per key that received a sample, and its bucket timestamps are
\* pairwise distinct and strictly ascending, whatever the order of the
\* input.
C19_TimeseriesKeyedAndAscending ==
    AggReturned =>
        LET timeseries == agg_out[1].timeseries
            n == Len(timeseries)
        IN /\ {timeseries[i].bucket_ts_ms : i \in 1..n} = SecondKeys
           /\ n = Cardinality(SecondKeys)
           /\ \A i, j \in 1..n : (i < j) => (timeseries[i].bucket_ts_ms < timeseries[j].bucket_ts_ms)
           /\ \A i \in 1..n :
                 LET here == {k \in Counted : SecondOf(agg_in.samples[k].timestamp_ms)
                                                 = timeseries[i].bucket_ts_ms}
                 IN /\ timeseries[i].rps_success
                          = Cardinality({k \in here : agg_in.samples[k].success})
                    /\ timeseries[i].rps_error
                          = Cardinality({k \in here : ~agg_in.samples[k].success})

\* C19 witness: samples given in descending order of time (2500, 1999,
\* 1000) come out as the buckets 1000 (two samples) and 2000.
C19_Witness ==
    /\ AggReturned
    /\ Len(agg_in.samples) = 3
    /\ agg_in.samples[1].timestamp_ms = 2500
    /\ agg_in.samples[2].timestamp_ms = 1999
    /\ agg_in.samples[3].timestamp_ms = 1000
    /\ Len(agg_out[1].timeseries) = 2
    /\ agg_out[1].timeseries[1].bucket_ts_ms = 1000
    /\ agg_out[1].timeseries[1].rps_success + agg_out[1].timeseries[1].rps_error = 2
    /\ agg_out[1].timeseries[2].bucket_ts_ms = 2000

(***************************************************************************)
(* execute_single_request applied to each way a request attempt can go     *)
(* (specification SpecRequest)                                             *)
(***************************************************************************)
\* StatusCode::as_u16() of a response: the edges of the families and
\* statuses inside and outside them (a StatusCode lies in 100..=999)
Statuses == {100, 200, 204, 301, 399, 400, 404, 499, 500, 503, 599, 600, 999}

\* what a reqwest::Error answers to the classifier's questions
TransportErrs ==
    [is_timeout : BOOLEAN,
     mentions : {{}, {"dns"}, {"failed to lookup address"}, {"tls"}, {"certificate"},
                 {"dns", "ssl"}},
     is_connect : BOOLEAN,
     text : {"error sending request"}]

RequestSpace ==
    [send_outcome : {Cancel} \cup {[kind |-> "err", err |-> e] : e \in TransportErrs}
                             \cup {Resp(status) : status \in Statuses},
     body_outcome : {Cancel, BodyOk(0, "empty"), BodyOk(9000, "long"),
                     [kind |-> "err", text |-> "error decoding response body"]},
     elapsed_ms : {Ms(10)},
     completed_at : {1500},
     bytes_out : {0, 50},
     save_bodies : {"None", "Errors"},
     stage : {"send"}]

InitRequest ==
    /\ RegistryIdle
    /\ spec = NoSpec
    /\ validated = <<>>
    /\ workloads = <<>>
    /\ AggregateIdle
    /\ RunIdle
    /\ req \in RequestSpace
    /\ req_sample = <<>>

\* the first select! and what follows it when no response was obtained
RequestSend ==
    /\ req.stage = "send"
    /\ IF req.send_outcome.kind = "ok"
       THEN /\ req' = [req EXCEPT !.stage = "body"]
            /\ UNCHANGED req_sample
       ELSE /\ req' = [req EXCEPT !.stage = "done"]
            /\ req_sample' = <<execute_single_request(req.send_outcome, req.body_outcome,
                                                      req.elapsed_ms, req.completed_at,
                                                      req.bytes_out, req.save_bodies)>>
    /\ UNCHANGED <<regVars, spec, valVars, aggVars, runVars>>

\* handle_response: the second select! and the sample built from it
RequestBody ==
    /\ req.stage = "body"
    /\ req' = [req EXCEPT !.stage = "done"]
    /\ req_sample' = <<handle_response(req.send_outcome.response, req.body_outcome,
                                       req.elapsed_ms, req.completed_at, req.bytes_out,
                                       req.save_bodies)>>
    /\ UNCHANGED <<regVars, spec, valVars, aggVars, runVars>>

NextRequest == RequestSend \/ RequestBody

SpecRequest == InitRequest /\ [][NextRequest]_vars

\* the attempt got a status and a body, and no cancellation won a race
ResponseAndBodyObtained ==
    /\ req_sample # <<>>
    /\ req.send_outcome.kind = "ok"
    /\ req.body_outcome.kind = "ok"

\* C20: when status and body were both obtained without cancellation, the
\* sample has success = true, no error type and no error message exactly
\* when status < 400; a status in [400, 500) gives HTTP_STATUS_4XX and a
\* status >= 500 gives HTTP_STATUS_5XX, both with success = false and the
\* message "HTTP <code>"; in all three cases cancelled = false and
\* status_code is the status received.
C20_StatusClassification ==
    ResponseAndBodyObtained =>
        LET sample == req_sample[1]
            status == req.send_outcome.response.status
        IN /\ ~sample.cancelled
           /\ sample.status_code = Some(status)
           /\ (status < 400) <=> sample.success
           /\ (status < 400) <=> (sample.error_type = NoneOpt)
           /\ (status < 400) <=> (sample.error_message = NoneOpt)
           /\ (status >= 400 /\ status < 500) =>
                 /\ sample.error_type = Some("HTTP_STATUS_4XX")
                 /\ sample.error_message = Some("HTTP " \o ToString(status))
           /\ (status >= 500) =>
                 /\ sample.error_type = Some("HTTP_STATUS_5XX")
                 /\ sample.error_message = Some("HTTP " \o ToString(status))

\* C20 witness: a response with status 400, the first of the 4xx family,
\* and its body were received.
C20_Witness ==
    /\ ResponseAndBodyObtained
    /\ req.send_outcome.response.status = 400
    /\ req_sample[1].error_type = Some("HTTP_STATUS_4XX")
    /\ req_sample[1].error_message = Some("HTTP 400")
    /\ ~req_sample[1].success

\* the attempt ended in a transport failure: no response, no cancellation
TransportFailed ==
    /\ req_sample # <<>>
    /\ req.send_outcome.kind = "err"

\* the classifier's tests, as the error answers them
DnsTest(err) == err.mentions \cap {"dns", "failed to lookup address"} # {}
TlsTest(err) == err.mentions \cap {"tls", "ssl", "certificate"} # {}

\* C21: a transport failure with no response is classified by the first
\* rule that matches, in the order timeout -> TIMEOUT, DNS -> DNS_ERROR,
\* TLS/certificate -> TLS_ERROR, connection -> CONNECT_ERROR, otherwise
\* READ_ERROR (so timeout and connect together is TIMEOUT, DNS and connect
\* together is DNS_ERROR); the sample has success = false, no status code
\* and cancelled = false.
C21_TransportFailureClassified ==
    TransportFailed =>
        LET sample == req_sample[1]
            err == req.send_outcome.err
        IN /\ ~sample.success
           /\ sample.status_code = NoneOpt
           /\ ~sample.cancelled
           /\ err.is_timeout => (sample.error_type = Some("TIMEOUT"))
           /\ (~err.is_timeout /\ DnsTest(err)) => (sample.error_type = Some("DNS_ERROR"))
           /\ (~err.is_timeout /\ ~DnsTest(err) /\ TlsTest(err))
                 => (sample.error_type = Some("TLS_ERROR"))
           /\ (~err.is_timeout /\ ~DnsTest(err) /\ ~TlsTest(err) /\ err.is_connect)
                 => (sample.error_type = Some("CONNECT_ERROR"))
           /\ (~err.is_timeout /\ ~DnsTest(err) /\ ~TlsTest(err) /\ ~err.is_connect)
                 => (sample.error_type = Some("READ_ERROR"))

\* C21 witness: a connect failure whose message mentions DNS, not a
\* timeout, was classified DNS_ERROR.
C21_Witness ==
    /\ TransportFailed
    /\ ~req.send_outcome.err.is_timeout
    /\ req.send_outcome.err.is_connect
    /\ DnsTest(req.send_outcome.err)
    /\ req_sample[1].error_type = Some("DNS_ERROR")

(***************************************************************************)
(* Claims about the phases of a run                                        *)
(***************************************************************************)
WarmupAttempts == {a \in 1..Len(attempts) : attempts[a].phase = "warmup"}

\* the attempts whose samples are waiting in the phase's sample channel
QueuedIds == {sample_chan[i].attempt : i \in 1..Len(sample_chan)}

\* the attempts whose samples the measurement phase returned
MeasuredIds == {plog["measurement"].samples[i].attempt :
                    i \in 1..Len(plog["measurement"].samples)}

\* C22: whatever the warmup requests come back with, the warmup phase
\* returns an empty sample list, no warmup request is ever published or
\* returned as a sample, and total_requests of the result counts only
\* requests of the measurement phase.
C22_WarmupNeverCounted ==
    /\ plog["warmup"].samples = <<>>
    /\ \A a \in WarmupAttempts : attempts[a].status # "published"
    /\ QueuedIds \cap WarmupAttempts = {}
    /\ MeasuredIds \subseteq MeasurementAttempts
    /\ (Returned /\ result[1].ok) =>
          result[1].value.metrics.summary.total_requests
              = Cardinality({a \in MeasurementAttempts : attempts[a].status = "published"})

\* C22 witness: a warmup request and a measurement request both came back,
\* the run returned Ok, and total_requests is one.
C22_Witness ==
    /\ run_pc = "done"
    /\ result[1].ok
    /\ \E a \in WarmupAttempts : attempts[a].status = "finished"
    /\ Cardinality(MeasurementAttempts) = 1
    /\ result[1].value.metrics.summary.total_requests = 1
    /\ plog["warmup"].returned = "ok"
    /\ plog["warmup"].samples = <<>>

Positive(opt) == opt # None /\ opt > 0

\* C23: the warmup workload is Iterations(warmup_iterations) whenever
\* warmup_iterations is present and > 0, even if warmup_duration_ms is > 0
\* too; it is DurationMs(warmup_duration_ms) when only warmup_duration_ms
\* is > 0; and there is no warmup phase when both are absent or 0.
C23_WarmupIterationsFirst ==
    workloads # <<>> =>
        LET warmup == workloads[2]
        IN /\ Positive(spec.warmup_iterations) => (warmup = Iterations(spec.warmup_iterations))
           /\ (~Positive(spec.warmup_iterations) /\ Positive(spec.warmup_duration_ms))
                 => (warmup = DurationMs(spec.warmup_duration_ms))
           /\ (~Positive(spec.warmup_iterations) /\ ~Positive(spec.warmup_duration_ms))
                 => (warmup = NoWorkload)

\* C23 witness: both warmup bounds are positive and the selector returned
\* the iterations.
C23_Witness ==
    /\ workloads # <<>>
    /\ Positive(spec.warmup_iterations)
    /\ Positive(spec.warmup_duration_ms)
    /\ workloads[2] = Iterations(spec.warmup_iterations)

\* the latencies of the counted samples, in half-microseconds
CountedLatencies == {agg_in.samples[k].latency : k \in Counted}

\* the nearest-rank percentile: the smallest latency v of a counted sample
\* such that at least pct percent of the counted samples have latency <= v
NearestRank(pct) ==
    LET covers(v) == 100 * Cardinality({k \in Counted : agg_in.samples[k].latency <= v})
                        >= pct * Cardinality(Counted)
    IN CHOOSE v \in CountedLatencies :
           /\ covers(v)
           /\ \A u \in CountedLatencies : covers(u) => v <= u

\* a latency in the unit of the percentile structure, whole microseconds
\* from 1 up
InMicros(latency) == Max(RoundDiv(latency, UnitsPerUs), 1)

\* a reported percentile (in microseconds) is within the structure's
\* resolution of a latency: it lies in the slot of three significant digits
\* that the latency falls in
WithinResolution(reported, latency) ==
    /\ lowest_equivalent(InMicros(latency)) <= reported
    /\ reported <= highest_equivalent(InMicros(latency))

ReportedPercentile(pct) ==
    LET latency == agg_out[1].summary.latency
    IN CASE pct = 50 -> latency.p50_ms
         [] pct = 90 -> latency.p90_ms
         [] pct = 95 -> latency.p95_ms
         [] pct = 99 -> latency.p99_ms

\* the upper end of the range the percentile structure covers: 60 seconds
HistogramCeiling == Ms(60 * 1000)

\* C24, as stated: each reported percentile (p50, p90, p95, p99) is, within
\* the percentile structure's resolution, the nearest-rank percentile of the
\* latencies of the non-cancelled samples.
C24_PercentilesNearestRank ==
    (AggReturned /\ Counted # {}) =>
        \A pct \in {50, 90, 95, 99} :
            WithinResolution(ReportedPercentile(pct), NearestRank(pct))

\* C24, amended: each reported percentile is, within the percentile
\* structure's resolution, the nearest-rank percentile of the latencies of
\* the non-cancelled samples when that latency is at most 60 seconds, and
\* the slot of 60 seconds when it is larger.
C24_PercentilesNearestRankUpTo60s ==
    (AggReturned /\ Counted # {}) =>
        \A pct \in {50, 90, 95, 99} :
            WithinResolution(ReportedPercentile(pct),
                             Min(NearestRank(pct), HistogramCeiling))

\* C24 witness: latencies of 10, 20 and 30 ms were aggregated; p50 is in the
\* slot of 20 ms and p99 in the slot of 30 ms.
C24_Witness ==
    /\ AggReturned
    /\ Cardinality(Counted) = 3
    /\ CountedLatencies = {Ms(10), Ms(20), Ms(30)}
    /\ NearestRank(50) = Ms(20)
    /\ agg_out[1].summary.latency.p50_ms = 20015
    /\ agg_out[1].summary.latency.p99_ms = 30015

\* the requests of a phase that were started while the phase's shared flag
\* was already set
LateStarts(ph) == {a \in 1..Len(attempts) : attempts[a].phase = ph /\ attempts[a].late}

LateStartsBounded ==
    \A ph \in PhaseNames : Cardinality(LateStarts(ph)) <= Max(spec.concurrency, 1) - 1

\* a worker that leaves its top-of-loop check while the flag is set stops:
\* it draws no ticket, starts no request and does not read its receiver
FlagStopsAtTop ==
    \A w \in Workers :
        (/\ phase.cancelled
         /\ workers[w].pc = "top"
         /\ workers'[w].pc \notin {"top", "crashed"})
        => /\ workers'[w].pc = "done"
           /\ workers'[w].next = workers[w].next
           /\ attempts' = attempts
           /\ phase'.iteration_counter = phase.iteration_counter

FlagStaysSet == (phase.cancelled /\ phase'.name = phase.name) => phase'.cancelled

\* C25: once a worker has set the phase's shared cancelled flag, every
\* worker that then performs its top-of-loop check stops without drawing a
\* ticket or starting a request, whether or not its own receiver has yielded
\* the broadcast; at most worker_count - 1 requests are started after the
\* flag is set; and the flag never returns to false within the phase.
C25_FlagShortCircuits ==
    []LateStartsBounded /\ [][FlagStopsAtTop /\ FlagStaysSet]_vars

\* C25 witness: the flag is set, one request was started after it was set,
\* and a worker has stopped at its top-of-loop check while its own receiver
\* was still empty (it subscribed after the send, and the channel is not
\* closed yet).
C25_Witness ==
    /\ phase.cancelled
    /\ phase.worker_count = 2
    /\ LateStarts(phase.name) # {}
    /\ chans[RunChan].closedBy = "sent"
    /\ \E w \in Workers :
          /\ workers[w].pc = "done"
          /\ try_recv(chans[RunChan], workers[w].next) = "Empty"
    /\ \A w \in Workers : workers[w].pc = "done"

(***************************************************************************)
(* A run under fair scheduling.  The tokio runtime polls every spawned     *)
(* task that is ready and every call runs to its end, so the steps of      *)
(* workers, of run_phase and of a cancel call that has begun do not wait   *)
(* for ever, and the clock reaches every deadline.  No fairness is given   *)
(* to the arrival of a response or of a body (WorkerSend, WorkerBody), to  *)
(* a crash, to a caller deciding to cancel, or to what execute_benchmark   *)
(* does outside run_phase.                                                 *)
(***************************************************************************)
FairSpecSpace ==
    {sp \in RunSpecSpace :
        /\ validate_spec(sp).ok
        /\ sp.method_ok /\ sp.headers_ok /\ sp.proxy_ok
        /\ \/ /\ sp.concurrency = MaxConcurrency
              /\ sp.mode = "FixedIterations"
              /\ sp.warmup_iterations = None /\ sp.warmup_duration_ms = None
           \/ /\ sp.concurrency = 1
              /\ sp.mode = "FixedDuration"
              /\ sp.warmup_iterations # None}

InitFair ==
    /\ RegistryIdle
    /\ spec \in FairSpecSpace
    /\ validated = <<>>
    /\ workloads = <<>>
    /\ AggregateIdle
    /\ RunIdle
    /\ RequestIdle

\* the steps the runtime takes by itself once they are ready
RuntimeStep ==
    \/ SpawnWorker \/ JoinWorker \/ PhaseReturn
    \/ DeadlineElapses
    \/ \E ch \in cancelTx : cancel_send(ch)
    \/ \E ch \in cancelTx : cancel_drop(ch)
    \/ \E w \in Workers :
          \/ WorkerTop(w)
          \/ WorkerWorkload(w)
          \/ WorkerSendCancelled(w)
          \/ WorkerBodyCancelled(w)
          \/ WorkerPublish(w)

\* The weakest form of fair scheduling: while some step of the runtime is
\* ready, the runtime does not stand still for ever.
Fairness == WF_vars(RuntimeStep)

SpecFair == InitFair /\ [][Next]_vars /\ Fairness

\* a worker is waiting on an in-flight request or on a response-body read
Waiting(w) == workers[w].pc \in {"send", "body"}

\* cancel(runID) has been called, has taken the run's sender out of the map
\* and is about to send, while a worker is waiting
CancelCalledWhileWaiting ==
    /\ RunChan \in cancelTx
    /\ chans[RunChan].closedBy = "open"
    /\ \E w \in Workers : Waiting(w)

\* the signal of cancel(runID) has reached a worker that is waiting: the
\* worker's receiver holds the broadcast, or its channel is closed
CancelReachedWaitingWorker ==
    /\ RunChan \in DOMAIN chans
    /\ \E w \in Workers :
          Waiting(w) /\ cancel_requested_result(chans[RunChan], workers[w].next)

\* every worker has stopped and, unless a worker crashed, the phase has
\* returned Ok with cancelled = true
PhaseEndedCancelled ==
    /\ phase.name \in PhaseNames
    /\ \A w \in Workers : ~Live(w)
    /\ (plog[phase.name].crashed = 0) =>
          /\ plog[phase.name].returned = "ok"
          /\ plog[phase.name].cancelled

\* once cancel has returned, the cancellation branch of every race is enabled
CancelBranchEnabled ==
    (RunChan \in DOMAIN chans /\ chans[RunChan].closedBy = "cancel") =>
        \A w \in Workers :
            Waiting(w) => cancel_requested_result(chans[RunChan], workers[w].next)

\* a worker whose cancellation branch won holds a cancelled sample; its next
\* step sets the shared flag and stops it, and publishes nothing
CancelledSampleStops ==
    \A w \in Workers :
        (/\ workers[w].pc = "publish"
         /\ workers[w].hold[1].cancelled
         /\ workers'[w].pc \notin {"publish", "crashed"})
        => /\ workers'[w].pc = "done"
           /\ phase'.cancelled
           /\ sample_chan' = sample_chan

CancelledBeforePhase ==
    /\ phase.name \in PhaseNames
    /\ plog[phase.name].cancel_done_first

NoRequestAfterEarlyCancel ==
    CancelledBeforePhase =>
        /\ Started(phase.name) = 0
        /\ \A w \in Workers : workers[w].pc \in {"unspawned", "top", "done", "crashed"}
        /\ sample_chan = <<>>
        /\ (plog[phase.name].returned = "ok") =>
              /\ plog[phase.name].cancelled
              /\ plog[phase.name].samples = <<>>

FirstCheckObserves ==
    \A w \in Workers :
        (/\ CancelledBeforePhase
         /\ workers[w].pc = "top"
         /\ workers'[w].pc \notin {"top", "crashed"})
        => /\ workers'[w].pc = "done"
           /\ phase'.cancelled

\* C27: a cancellation is not lost to workers that subscribe after it
\* fired: if cancel(runID) has completed before a phase's workers
\* resubscribe (before the first phase, or between warmup and measurement),
\* every worker of that phase observes the cancellation at its first
\* top-of-loop check and issues no request, and the phase returns
\* cancelled = true with no samples.
C27_EarlyCancelIsSeen ==
    []NoRequestAfterEarlyCancel /\ [][FirstCheckObserves]_vars

\* C27 witness: the warmup ran a request and was not cancelled, cancel
\* completed before the measurement workers resubscribed, and the
\* measurement phase of two workers returned cancelled with no samples.
C27_Witness ==
    /\ phase.name = "measurement"
    /\ plog["measurement"].cancel_done_first
    /\ plog["warmup"].returned = "ok"
    /\ ~plog["warmup"].cancelled
    /\ Started("warmup") > 0
    /\ phase.worker_count = 2
    /\ plog["measurement"].returned = "ok"
    /\ plog["measurement"].cancelled
    /\ plog["measurement"].samples = <<>>
    /\ Started("measurement") = 0

\* the ticket indexes the requests of the measurement phase were started with
MeasurementTickets == {attempts[a].ticket : a \in MeasurementAttempts}

TicketsDistinct ==
    \A a, b \in MeasurementAttempts :
        (attempts[a].ticket = attempts[b].ticket) => (a = b)

MeasurementCompletedOk(n) ==
    /\ measurement_workload(spec).ok
    /\ measurement_workload(spec).value = Iterations(n)
    /\ plog["measurement"].returned = "ok"
    /\ ~plog["measurement"].cancelled

\* C28: no two workers ever draw the same ticket, and if an
\* iteration-bounded measurement phase Iterations(n) returns Ok with
\* cancelled = false, then every ticket 0..n-1 was drawn by exactly one
\* worker, exactly n requests were executed and exactly n samples are
\* returned, whatever the worker count and the interleaving.
C28_ExactlyNWhenNotCancelled ==
    /\ (measurement_workload(spec).ok /\ measurement_workload(spec).value.kind = "Iterations")
          => TicketsDistinct
    /\ \A n \in 1..MaxIterations :
          MeasurementCompletedOk(n) =>
              /\ MeasurementTickets = 0..(n - 1)
              /\ Cardinality(MeasurementAttempts) = n
              /\ \A a \in MeasurementAttempts : attempts[a].status = "published"
              /\ Len(plog["measurement"].samples) = n
              /\ MeasuredIds = MeasurementAttempts

\* C28 witness: two workers shared Iterations(2); the phase returned Ok, not
\* cancelled, with two samples, and both workers had drawn a ticket past
\* the bound.
C28_Witness ==
    /\ MeasurementCompletedOk(2)
    /\ phase.name = "measurement"
    /\ phase.worker_count = 2
    /\ phase.iteration_counter = 4
    /\ Len(plog["measurement"].samples) = 2
    /\ MeasurementTickets = {0, 1}

\* a call of cancel(runID) has returned true for the run
CancelReturnedTrue == hist[RunId].trues > 0

\* C29: if cancel(runID) returns true for a run started by start_benchmark,
\* the run's execution result has cancelled = true and the run is recorded
\* with status cancelled, never completed, whenever the call is made
\* relative to the last worker's final loop check and to the registry
\* removal at the end of the run.
C29_TrueCancelIsRecorded ==
    (CancelReturnedTrue /\ run_pc = "done" /\ result[1].ok) =>
        /\ result[1].value.cancelled
        /\ run_status = "cancelled"

\* C30: when run_phase returns, with Ok or with a worker-crash error, every
\* worker task of the phase has terminated: after execute_benchmark has
\* returned no worker of the run is still running or starts a request.
C30_NoWorkerOutlivesTheRun ==
    Returned => \A w \in Workers : ~Live(w)

(***************************************************************************)
(* Claims about the worker pool and the phases' own state                  *)
(***************************************************************************)
\* the requests that are in flight: started, and neither completed,
\* cancelled nor lost with their worker
InFlight == {a \in 1..Len(attempts) : attempts[a].status = "inflight"}

PoolBounded ==
    /\ Cardinality(InFlight) <= Max(1, spec.concurrency)
    /\ Cardinality({w \in Workers : Live(w)}) <= Max(1, spec.concurrency)
    /\ \A w \in Workers :
          Cardinality({a \in InFlight : workers[w].attempt = a}) <= 1
    /\ \A a \in InFlight : \E w \in Workers : Waiting(w) /\ workers[w].attempt = a
    /\ (phase.name \in PhaseNames) =>
          /\ phase.worker_count = Max(1, spec.concurrency)
          /\ phase.spawned <= phase.worker_count
          /\ (run_pc \in {"join", "drain"}) => (phase.spawned = phase.worker_count)

\* the measurement phase begins only when no warmup worker is left
WarmupOverBeforeMeasurement ==
    (phase.name = "measurement") =>
        /\ \A a \in WarmupAttempts : attempts[a].status # "inflight"
        /\ (phase.spawned = 0) => \A w \in Workers : ~Live(w)

PoolNeverResized ==
    (phase.name \in PhaseNames /\ phase'.name = phase.name)
        => /\ phase'.worker_count = phase.worker_count
           /\ phase'.spawned >= phase.spawned

\* C31: at every moment of a run the number of in-flight requests is at
\* most max(1, concurrency): each phase has exactly that many workers, each
\* with at most one outstanding request, the pool is never resized, and
\* the workers of the measurement phase are spawned only after every warmup
\* worker has terminated.
C31_InFlightBounded ==
    [](PoolBounded /\ WarmupOverBeforeMeasurement) /\ [][PoolNeverResized]_vars

\* C31 witness: after a warmup that ran a request, both workers of a
\* measurement phase of concurrency 2 have a request in flight.
C31_Witness ==
    /\ phase.name = "measurement"
    /\ spec.concurrency = 2
    /\ Cardinality(InFlight) = 2
    /\ \E a \in WarmupAttempts : attempts[a].status = "finished"
    /\ \A w \in Workers : Waiting(w)

(***************************************************************************)
(* A run in which, besides the runtime's own steps, every request attempt  *)
(* eventually completes: the response, the failure or the timeout of a     *)
(* request that is waited for arrives (WorkerSend, WorkerBody).            *)
(***************************************************************************)
RequestCompletes == \E w \in Workers : WorkerSend(w) \/ WorkerBody(w)

SpecFairRequests ==
    InitFair /\ [][Next]_vars /\ WF_vars(RuntimeStep \/ RequestCompletes)

\* run_phase is about to spawn the workers of an iteration-bounded phase
IterationPhaseStarted ==
    /\ phase.name \in PhaseNames
    /\ phase.workload.kind = "Iterations"
    /\ run_pc = "spawn"

\* every worker left its loop, all were joined, the drain ended and
\* run_phase returned Ok
IterationPhaseReturned ==
    /\ phase.name \in PhaseNames
    /\ phase.workload.kind = "Iterations"
    /\ \A w \in Workers : ~Live(w)
    /\ phase.joined = phase.worker_count
    /\ sample_chan = <<>>
    /\ plog[phase.name].returned = "ok"

\* a cancel call was accepted, or a worker task panicked
CancelledOrCrashed == hist[RunId].trues > 0 \/ Crashed > 0

\* sample_tx.send on the unbounded channel never waits
PublishNeverBlocks ==
    \A w \in Workers : (workers[w].pc = "publish") => ENABLED WorkerPublish(w)

\* the drain is reached only when no sender of the sample channel is left
DrainHasNoSender == (run_pc = "drain") => (SampleSenders = {})

\* C32: if no cancellation occurs and every request attempt eventually
\* completes, an iteration-bounded phase eventually terminates: every worker
\* leaves its loop, run_phase joins them all, and the drain of the sample
\* channel ends because every sender, each worker's clone and the runner's
\* own, has been dropped; no worker ever blocks on publishing a sample.
C32_IterationPhaseTerminates ==
    /\ IterationPhaseStarted ~> (IterationPhaseReturned \/ CancelledOrCrashed)
    /\ [](PublishNeverBlocks /\ DrainHasNoSender)

\* C32 witness: with no cancel and no crash, a measurement phase of two
\* workers and two iterations returned its two samples.
C32_Witness ==
    /\ IterationPhaseReturned
    /\ ~CancelledOrCrashed
    /\ phase.name = "measurement"
    /\ phase.worker_count = 2
    /\ Len(plog["measurement"].samples) = 2

WarmupTickets == {attempts[a].ticket : a \in WarmupAttempts}

\* run_phase has just been entered: nothing spawned, counter and flag as
\* Arc::new(AtomicU64::new(0)) and Arc::new(AtomicBool::new(false)) leave them
PhaseStartsFresh ==
    (phase.name \in PhaseNames /\ phase.spawned = 0) =>
        /\ phase.iteration_counter = 0
        /\ ~phase.cancelled

\* every warmup request was started before every measurement request
WarmupThenMeasurement ==
    \A a \in WarmupAttempts : \A b \in MeasurementAttempts : a < b

\* the run has warmup Iterations(w) and measurement Iterations(n), both
\* phases returned Ok and neither was cancelled
BothPhasesCompletedOk(w, n) ==
    /\ warmup_workload(spec) = Iterations(w)
    /\ MeasurementCompletedOk(n)
    /\ plog["warmup"].returned = "ok"
    /\ ~plog["warmup"].cancelled

\* C33: the ticket counter and the cancelled flag are fresh for each phase:
\* the requests of an iteration-bounded warmup never consume tickets of the
\* measurement phase, so a run with warmup_iterations = w and iterations = n
\* that is never cancelled executes w warmup requests, with tickets 0..w-1,
\* followed by exactly n measurement requests, with tickets 0..n-1.
C33_FreshCounterPerPhase ==
    /\ PhaseStartsFresh
    /\ WarmupThenMeasurement
    /\ \A w \in 1..MaxWarmupIterations : \A n \in 1..MaxIterations :
          BothPhasesCompletedOk(w, n) =>
              /\ Cardinality(WarmupAttempts) = w
              /\ WarmupTickets = 0..(w - 1)
              /\ Cardinality(MeasurementAttempts) = n
              /\ MeasurementTickets = 0..(n - 1)

\* C33 witness: one warmup request, then two measurement requests drawn by
\* two workers; ticket 0 was drawn once in each phase.
C33_Witness ==
    /\ BothPhasesCompletedOk(1, 2)
    /\ phase.worker_count = 2
    /\ Cardinality(WarmupAttempts) = 1
    /\ Cardinality(MeasurementAttempts) = 2
    /\ 0 \in WarmupTickets \cap MeasurementTickets

\* the task spawned by start_benchmark has run to its end
ExecutionFinished == run_pc = "done"

\* the registry holds an entry for id
HasEntry(id) == senders[id] # 0

\* the registry holds entries only for the started run, from its
\* registration until its task has ended
EntriesOnlyForUnfinishedRuns ==
    \A id \in Ids : HasEntry(id) => (id = RunId /\ run_pc \notin {"idle", "done"})

\* the final status was recorded and the entry is gone
EntryRemovedAtEnd ==
    ExecutionFinished =>
        /\ ~HasEntry(RunId)
        /\ hist[RunId].removed
        /\ run_status \in {"completed", "cancelled", "failed"}

\* a cancel(runID) made after the end returns false
CancelAfterEndReturnsFalse ==
    (ExecutionFinished /\ hist'[RunId].calls > hist[RunId].calls) =>
        /\ hist'[RunId].trues = hist[RunId].trues
        /\ ~HasEntry(RunId)'

\* C34: every run started by start_benchmark has its registry entry removed
\* once its execution finishes, whether it completed, was cancelled or
\* failed; after that point cancel(runID) returns false, and at every moment
\* the registry holds entries only for runs whose execution has not yet
\* finished.
C34_EntryRemovedWhenFinished ==
    /\ [](EntryRemovedAtEnd /\ EntriesOnlyForUnfinishedRuns)
    /\ [][CancelAfterEndReturnsFalse]_vars

\* C34 witness: a run that failed has ended, and the only cancel call made
\* since its registration returned false.
C34_Witness ==
    /\ ExecutionFinished
    /\ run_status = "failed"
    /\ hist[RunId].registered
    /\ hist[RunId].calls = 1
    /\ hist[RunId].trues = 0
    /\ ~HasEntry(RunId)

\* success iff no error type; cancelled iff the error type is CANCELED; and
\* success, cancelled and an error type other than CANCELED exclude each
\* other
SampleWellFormed(sample) ==
    LET failed == is_some(sample.error_type) /\ sample.error_type # Some("CANCELED")
    IN /\ sample.success <=> (sample.error_type = NoneOpt)
       /\ sample.cancelled <=> (sample.error_type = Some("CANCELED"))
       /\ ~(sample.success /\ sample.cancelled)
       /\ ~(sample.success /\ failed)
       /\ ~(sample.cancelled /\ failed)
       /\ sample.success \/ sample.cancelled \/ failed

ProducedBy(q) ==
    execute_single_request(q.send_outcome, q.body_outcome, q.elapsed_ms, q.completed_at,
                           q.bytes_out, q.save_bodies)

\* every outcome of the two races gives a well-formed sample (evaluated in
\* the states whose sample list is empty, the inputs being those of
\* RequestSpace), and so is every sample handed to aggregate_samples
ProducedSamplesWellFormed ==
    /\ (agg_in.samples = <<>> /\ agg_i = 0 /\ agg_out = <<>>) =>
          \A q \in RequestSpace : SampleWellFormed(ProducedBy(q))
    /\ \A k \in 1..Len(agg_in.samples) : SampleWellFormed(agg_in.samples[k])

ErrorTypeTotal(summary) ==
    SumOver(summary.error_type_counts, DOMAIN summary.error_type_counts)

\* C35: every sample produced by execute_single_request has success = true
\* iff it has no error type and cancelled = true iff its error type is
\* CANCELED, and success, cancelled and a non-CANCELED error type exclude
\* one another; consequently the values of error_type_counts sum to
\* error_count, after every sample consumed and in the metrics returned.
C35_ErrorTypesSumToErrorCount ==
    /\ ProducedSamplesWellFormed
    /\ ErrorTypeTotal(agg_acc.summary) = agg_acc.summary.error_count
    /\ agg_out # <<>> =>
          ErrorTypeTotal(agg_out[1].summary) = agg_out[1].summary.error_count

\* C35 witness: a success, a 404 and a cancelled sample were aggregated;
\* error_count is 1 and error_type_counts holds HTTP_STATUS_4XX once.
C35_Witness ==
    /\ agg_out # <<>>
    /\ Len(agg_in.samples) = 3
    /\ \E k \in 1..3 : agg_in.samples[k].success
    /\ \E k \in 1..3 : agg_in.samples[k].cancelled
    /\ \E k \in 1..3 : agg_in.samples[k].status_code = Some(404)
    /\ agg_out[1].summary.error_count = 1
    /\ agg_out[1].summary.error_type_counts = ("HTTP_STATUS_4XX" :> 1)

\* the samples among the first `upto` that are counted under the entry e:
\* not cancelled, with e's error type, status code and message
SamplesOfEntry(e, upto) ==
    {k \in 1..upto :
        /\ ~agg_in.samples[k].cancelled
        /\ agg_in.samples[k].error_type = Some(e.error_type)
        /\ agg_in.samples[k].status_code = e.status_code
        /\ agg_in.samples[k].error_message = Some(e.message)}

\* the body of the first of those samples that carries one, if any
FirstBody(e, upto) ==
    LET with_body == {k \in SamplesOfEntry(e, upto) : is_some(agg_in.samples[k].sample_body)}
    IN IF with_body = {} THEN NoneOpt
       ELSE agg_in.samples[CHOOSE k \in with_body : \A j \in with_body : k <= j].sample_body

EntriesHoldFirstBody ==
    /\ \A key \in DOMAIN agg_acc.top_error_map :
          agg_acc.top_error_map[key].sample_body
              = FirstBody(agg_acc.top_error_map[key], agg_i)
    /\ agg_out # <<>> =>
          \A i \in 1..Len(agg_out[1].top_errors) :
              agg_out[1].top_errors[i].sample_body
                  = FirstBody(agg_out[1].top_errors[i], Len(agg_in.samples))

\* consuming one more sample never replaces a captured body, and fills an
\* empty one exactly when the sample is a duplicate of the entry
CapturedBodyKept ==
    (agg_i' = agg_i + 1) =>
        \A key \in DOMAIN agg_acc.top_error_map :
            LET before == agg_acc.top_error_map[key]
                after == agg_acc'.top_error_map[key]
                sample == agg_in.samples[agg_i']
            IN /\ key \in DOMAIN agg_acc'.top_error_map
               /\ is_some(before.sample_body) => (after.sample_body = before.sample_body)
               /\ (before.sample_body = NoneOpt /\ after.count = before.count + 1)
                      => (after.sample_body = sample.sample_body)
               /\ (after.count = before.count) => (after.sample_body = before.sample_body)

\* C36: body capture for a deduplicated error entry is first-seen-wins: once
\* an entry holds a captured body no later sample with the same triple
\* replaces it, and an entry whose earlier samples carried no body takes the
\* body of the first later duplicate that has one.
C36_FirstBodyWins ==
    /\ []EntriesHoldFirstBody
    /\ [][CapturedBodyKept]_vars

\* C36 witness: three HTTP 503 samples, the first without a body, the
\* second with the body "busy", the third with the body "down"; the one
\* entry returned counts three and holds "busy".
C36_Witness ==
    /\ agg_out # <<>>
    /\ Len(agg_in.samples) = 3
    /\ \A k \in 1..3 : agg_in.samples[k].status_code = Some(503)
    /\ agg_in.samples[1].sample_body = NoneOpt
    /\ is_some(agg_in.samples[2].sample_body) /\ agg_in.samples[2].sample_body[1].tag = "busy"
    /\ is_some(agg_in.samples[3].sample_body) /\ agg_in.samples[3].sample_body[1].tag = "down"
    /\ Len(agg_out[1].top_errors) = 1
    /\ agg_out[1].top_errors[1].count = 3
    /\ agg_out[1].top_errors[1].sample_body = agg_in.samples[2].sample_body

\* a status was received, cancellation did not win the second race, and
\* response.bytes() failed
BodyReadFailed ==
    /\ req_sample # <<>>
    /\ req.send_outcome.kind = "ok"
    /\ req.body_outcome.kind = "err"

\* C37: if reading the response body fails after a status was received and
\* cancellation did not win the race, the sample has error type READ_ERROR,
\* success = false, cancelled = false, the read error's text as message and
\* status_code equal to the received status, whatever the status (also one
\* below 400), and bytes_in counts only the estimated header bytes.
C37_ReadErrorKeepsStatus ==
    BodyReadFailed =>
        LET sample == req_sample[1]
            response == req.send_outcome.response
        IN /\ sample.error_type = Some("READ_ERROR")
           /\ ~sample.success
           /\ ~sample.cancelled
           /\ sample.status_code = Some(response.status)
           /\ sample.error_message = Some(req.body_outcome.text)
           /\ sample.bytes_in = response.headers_bytes
           /\ sample.bytes_out = req.bytes_out
           /\ sample.sample_body = NoneOpt

\* C37 witness: the body read of a 200 response failed.
C37_Witness ==
    /\ BodyReadFailed
    /\ req.send_outcome.response.status = 200
    /\ req_sample[1].status_code = Some(200)
    /\ req_sample[1].error_type = Some("READ_ERROR")
    /\ req_sample[1].bytes_in = 40

\* C37 witness: the body read of a 503 response failed, with bodies of
\* error responses being saved.
C37_WitnessErrorStatus ==
    /\ BodyReadFailed
    /\ req.send_outcome.response.status = 503
    /\ req.save_bodies = "Errors"
    /\ req_sample[1].error_type = Some("READ_ERROR")

\* the seconds that hold a counted sample, and the number of counted samples
\* of a second
CountedSeconds ==
    {agg_in.samples[k].timestamp_ms \div 1000 :
        k \in NotCancelled(agg_in.samples, Len(agg_in.samples))}

LoadOfSecond(sec) ==
    Cardinality({k \in NotCancelled(agg_in.samples, Len(agg_in.samples)) :
                    agg_in.samples[k].timestamp_ms \div 1000 = sec})

MaxOf(values) == IF values = {} THEN 0 ELSE CHOOSE v \in values : \A u \in values : v >= u

\* the largest success + error count among the buckets returned
PeakOfBuckets ==
    MaxOf({agg_out[1].timeseries[i].rps_success + agg_out[1].timeseries[i].rps_error :
              i \in 1..Len(agg_out[1].timeseries)})

\* C38: summary.rps_peak (in thousandths) equals the maximum over all
\* time-series buckets of the success + error count, which is the largest
\* number of counted samples completed in one second; hence it is at least
\* 1 and at most total_requests when total_requests > 0, and it is 0 when
\* there are no non-cancelled samples.
C38_PeakIsLargestBucket ==
    agg_out # <<>> =>
        LET sm == agg_out[1].summary
        IN /\ sm.rps_peak = 1000 * PeakOfBuckets
           /\ sm.rps_peak = 1000 * MaxOf({LoadOfSecond(sec) : sec \in CountedSeconds})
           /\ (sm.total_requests > 0) =>
                 (1000 <= sm.rps_peak /\ sm.rps_peak <= 1000 * sm.total_requests)
           /\ (NotCancelled(agg_in.samples, Len(agg_in.samples)) = {}) => (sm.rps_peak = 0)

\* C38 witness: three counted samples, a success and a failure in one
\* second and a failure in another; the peak is 2, below total_requests.
C38_Witness ==
    /\ agg_out # <<>>
    /\ agg_out[1].summary.total_requests = 3
    /\ Len(agg_out[1].timeseries) = 2
    /\ \E i \in 1..2 : /\ agg_out[1].timeseries[i].rps_success = 1
                       /\ agg_out[1].timeseries[i].rps_error = 1
    /\ agg_out[1].summary.rps_peak = 2 * 1000

\* C38 witness: only cancelled samples were aggregated; the peak is 0.
C38_WitnessAllCancelled ==
    /\ agg_out # <<>>
    /\ Len(agg_in.samples) = 2
    /\ \A k \in 1..2 : agg_in.samples[k].cancelled
    /\ agg_out[1].summary.rps_peak = 0

====
